---- MODULE Spec2Model ----
(***************************************************************************)
(* humanlog: a log/slog handler that renders records as fixed-width text   *)
(* lines (or delegates to slog's JSON handler).                            *)
(*                                                                         *)
(* Strings are sequences of one-symbol strings (<<"G","E","T">> is "GET"), *)
(* so that len, slicing, concatenation and scanning are what the Go code   *)
(* does.  A byte of a multi-byte UTF-8 rune is one symbol ("<C3>","<A9>"). *)
(***************************************************************************)
EXTENDS Integers, Sequences, FiniteSets, TLC

VARIABLES
    handlers,   \* every *Handler allocated so far (index = identity)
    attrArr,    \* backing arrays of the []slog.Attr slices
    grpArr,     \* backing arrays of the []string slices
    jh,         \* the underlying slog handlers (h.h), index = identity
    sink,       \* the io.Writer: the write calls made on it, each with its result
                \* (and, as history, the handler, the record and the number of
                \* handlers that existed)
    hist,       \* history: for each Handler, the call that created it
    call,       \* the operation last invoked, with its arguments
    ret,        \* what that operation returned
    callers,    \* the goroutines calling Handle concurrently: where each is
                \* in Handle, on which handler and with which record
    callerOpts  \* the Options value the caller of NewHandler owns (*opts)

vars == <<handlers, attrArr, grpArr, jh, sink, hist, call, ret, callers, callerOpts>>

-----------------------------------------------------------------------------
(* Bounds of the exploration *)

MaxStrLen == 3
MaxMsgLen == 4
MaxOps == 3
DeriveMaxOps == 5
OrderMaxOps == 4
ShareMaxOps == 5
MaxCallers == 2
ConcMaxOps == 4
LevelRange == 30

-----------------------------------------------------------------------------
(* Characters and strings *)

Printable ==
    <<"!", "\"", "#", "$", "%", "&", "'", "(", ")", "*", "+", ",", "-", ".", "/",
      "0", "1", "2", "3", "4", "5", "6", "7", "8", "9", ":", ";", "<", "=", ">",
      "?", "@", "A", "B", "C", "D", "E", "F", "G", "H", "I", "J", "K", "L", "M",
      "N", "O", "P", "Q", "R", "S", "T", "U", "V", "W", "X", "Y", "Z", "[", "\\",
      "]", "^", "_", "<grave>", "a", "b", "c", "d", "e", "f", "g", "h", "i", "j", "k",
      "l", "m", "n", "o", "p", "q", "r", "s", "t", "u", "v", "w", "x", "y", "z",
      "{", "|", "}", "~">>

PrintableCode ==
    [c \in {Printable[i] : i \in 1..Len(Printable)} |->
        32 + (CHOOSE i \in 1..Len(Printable) : Printable[i] = c)]

\* the code point of a rune; a symbol outside ASCII stands for a rune >= 0x80
CharCode(c) ==
    IF c = "\t" THEN 9
    ELSE IF c = "\n" THEN 10
    ELSE IF c = " " THEN 32
    ELSE IF c \in DOMAIN PrintableCode THEN PrintableCode[c]
    ELSE 233

Digits == {"0", "1", "2", "3", "4", "5", "6", "7", "8", "9"}

UpperCase == {Printable[i] : i \in 33..58}

lower(c) == IF c \in UpperCase THEN Printable[CharCode(c)] ELSE c

IsDigit(c) == c \in Digits

IsHexDigit(c) == IsDigit(c) \/ lower(c) \in {"a", "b", "c", "d", "e", "f"}

DigitVal(c) == CharCode(c) - 48

Slice(s, lo, hi) == IF hi < lo THEN <<>> ELSE SubSeq(s, lo, hi)

Spaces(n) == [i \in 1..n |-> " "]

RECURSIVE Join(_, _)
Join(ss, sep) ==
    IF ss = <<>> THEN <<>>
    ELSE IF Len(ss) = 1 THEN ss[1]
    ELSE ss[1] \o sep \o Join(Tail(ss), sep)

RECURSIVE Concat(_)
Concat(ss) == IF ss = <<>> THEN <<>> ELSE ss[1] \o Concat(Tail(ss))

\* 1-based index of the last occurrence of c in s, 0 when absent
LastIndex(s, c) ==
    IF \E i \in 1..Len(s) : s[i] = c
    THEN CHOOSE i \in 1..Len(s) : s[i] = c /\ \A j \in (i+1)..Len(s) : s[j] # c
    ELSE 0

Contains(s, sub) ==
    \E i \in 0..(Len(s) - Len(sub)) : Slice(s, i + 1, i + Len(sub)) = sub

SeqsUpTo(S, n) == UNION {[1..k -> S] : k \in 0..n}

-----------------------------------------------------------------------------
(* strconv.ParseFloat(s, 64), as needsQuoting uses it: only err == nil      *)
(* matters.  Syntax is strconv's readFloat/special; a syntactically valid   *)
(* decimal whose value overflows float64 gives ErrRange.                    *)

\* commonPrefixLenIgnoreCase(s, prefix), prefix given in lower case
RECURSIVE commonPrefixLen(_, _)
commonPrefixLen(s, prefix) ==
    IF s = <<>> \/ prefix = <<>> THEN 0
    ELSE IF lower(s[1]) = prefix[1] THEN 1 + commonPrefixLen(Tail(s), Tail(prefix))
    ELSE 0

\* number of symbols the special values (inf, infinity, nan) consume; 0 = none
special(s) ==
    IF s = <<>> THEN 0
    ELSE IF s[1] \in {"+", "-"} \/ lower(s[1]) = "i"
    THEN LET nsign == IF s[1] \in {"+", "-"} THEN 1 ELSE 0
             n0 == commonPrefixLen(Slice(s, nsign + 1, Len(s)),
                                   <<"i", "n", "f", "i", "n", "i", "t", "y">>)
             n == IF 3 < n0 /\ n0 < 8 THEN 3 ELSE n0
         IN IF n = 3 \/ n = 8 THEN nsign + n ELSE 0
    ELSE IF lower(s[1]) = "n"
    THEN IF commonPrefixLen(s, <<"n", "a", "n">>) = 3 THEN 3 ELSE 0
    ELSE 0

\* the mantissa loop of readFloat from index i: where it stops, and what it saw.
\* nd counts digits with leading zeros dropped, dp is the decimal point position.
RECURSIVE scanMant(_, _, _, _, _, _, _, _)
scanMant(s, i, hex, sawdot, sawdigits, nd, dp, first) ==
    IF i > Len(s)
    THEN [i |-> i, sawdot |-> sawdot, sawdigits |-> sawdigits, nd |-> nd, dp |-> dp, first |-> first]
    ELSE IF s[i] = "_"
    THEN scanMant(s, i + 1, hex, sawdot, sawdigits, nd, dp, first)
    ELSE IF s[i] = "." /\ ~sawdot
    THEN scanMant(s, i + 1, hex, TRUE, sawdigits, nd, nd, first)
    ELSE IF IsDigit(s[i]) \/ (hex /\ IsHexDigit(s[i]))
    THEN IF s[i] = "0" /\ nd = 0
         THEN scanMant(s, i + 1, hex, sawdot, TRUE, nd, dp - 1, first)
         ELSE scanMant(s, i + 1, hex, sawdot, TRUE, nd + 1, dp,
                       IF nd = 0 THEN s[i] ELSE first)
    ELSE [i |-> i, sawdot |-> sawdot, sawdigits |-> sawdigits, nd |-> nd, dp |-> dp, first |-> first]

\* the exponent digits from index i: where they stop and their value (capped)
RECURSIVE scanExp(_, _, _)
scanExp(s, i, e) ==
    IF i > Len(s) THEN [i |-> i, e |-> e]
    ELSE IF s[i] = "_" THEN scanExp(s, i + 1, e)
    ELSE IF IsDigit(s[i])
    THEN scanExp(s, i + 1, IF e < 10000 THEN e * 10 + DigitVal(s[i]) ELSE e)
    ELSE [i |-> i, e |-> e]

\* underscoreOK: underscores only between digits (one may follow a base prefix)
RECURSIVE underscoreScan(_, _, _, _)
underscoreScan(s, i, hex, saw) ==
    IF i > Len(s) THEN saw # "_"
    ELSE IF IsDigit(s[i]) \/ (hex /\ IsHexDigit(s[i]))
    THEN underscoreScan(s, i + 1, hex, "0")
    ELSE IF s[i] = "_"
    THEN IF saw # "0" THEN FALSE ELSE underscoreScan(s, i + 1, hex, "_")
    ELSE IF saw = "_" THEN FALSE
    ELSE underscoreScan(s, i + 1, hex, "!")

underscoreOK(s0) ==
    LET s == IF Len(s0) >= 1 /\ s0[1] \in {"+", "-"} THEN Tail(s0) ELSE s0
        pre == Len(s) >= 2 /\ s[1] = "0" /\ lower(s[2]) \in {"b", "o", "x"}
    IN underscoreScan(s, IF pre THEN 3 ELSE 1, pre /\ lower(s[2]) = "x",
                      IF pre THEN "0" ELSE "^")

\* largest decimal point position of a finite float64 (1.797e308 = 0.1797e309)
MaxDecimalPoint == 309

\* readFloat: [ok, n, overflow]: n symbols consumed when the syntax is valid
readFloat(s) ==
    LET bad == [ok |-> FALSE, n |-> 0, overflow |-> FALSE]
        i1 == IF s # <<>> /\ s[1] \in {"+", "-"} THEN 2 ELSE 1
        hex == i1 + 2 <= Len(s) /\ s[i1] = "0" /\ lower(s[i1 + 1]) = "x"
        i2 == IF hex THEN i1 + 2 ELSE i1
        m == scanMant(s, i2, hex, FALSE, FALSE, 0, 0, "0")
        dp0 == IF m.sawdot THEN m.dp ELSE m.nd
        expChar == IF hex THEN "p" ELSE "e"
        hasExp == m.i <= Len(s) /\ lower(s[m.i]) = expChar
        i3 == m.i + 1
        esign == IF i3 <= Len(s) /\ s[i3] = "-" THEN -1 ELSE 1
        i4 == IF i3 <= Len(s) /\ s[i3] \in {"+", "-"} THEN i3 + 1 ELSE i3
        x == scanExp(s, i4, 0)
        iend == IF hasExp THEN x.i ELSE m.i
        dp == IF hasExp THEN dp0 + x.e * esign ELSE dp0
        under == \E k \in 1..(iend - 1) : s[k] = "_"
    IN IF s = <<>> \/ i1 > Len(s) THEN bad
       ELSE IF ~m.sawdigits THEN bad
       ELSE IF hasExp /\ (i4 > Len(s) \/ ~IsDigit(s[i4])) THEN bad
       ELSE IF ~hasExp /\ hex THEN bad
       ELSE IF under /\ ~underscoreOK(Slice(s, 1, iend - 1)) THEN bad
       ELSE [ok |-> TRUE, n |-> iend - 1,
             overflow |-> ~hex /\ m.nd > 0
                          /\ (dp > MaxDecimalPoint
                              \/ (dp = MaxDecimalPoint /\ DigitVal(m.first) >= 2))]

\* err == nil of strconv.ParseFloat(s, 64)
ParseFloatOK(s) ==
    LET n == special(s)
        f == readFloat(s)
    IN IF n # 0 THEN n = Len(s)
       ELSE f.ok /\ f.n = Len(s) /\ ~f.overflow

-----------------------------------------------------------------------------
(* needsQuoting and strconv.Quote *)

str_true == <<"t", "r", "u", "e">>
str_false == <<"f", "a", "l", "s", "e">>
str_nil == <<"n", "i", "l">>

\* "<grave>" is the backquote character
QuotedRunes == {"=", "\"", "'", "<grave>", "[", "]", "{", "}"}

\* mutant of quoteRune: the braces are not in the list
quoteRune_noBraces(r) == CharCode(r) <= 32 \/ r \in QuotedRunes \ {"{", "}"}

\* the loop body of needsQuoting: r <= ' ' or one of the special characters
quoteRune(r) == CharCode(r) <= 32 \/ r \in QuotedRunes

needsQuoting(s) ==
    IF s = <<>> THEN TRUE
    ELSE IF ParseFloatOK(s) THEN FALSE
    ELSE IF s \in {str_true, str_false, str_nil} THEN TRUE
    ELSE \E i \in 1..Len(s) : quoteRune(s[i])

\* strconv.Quote's escape of one rune (the %q verb)
escapeRune(r) ==
    IF r = "\"" THEN <<"\\", "\"">>
    ELSE IF r = "\\" THEN <<"\\", "\\">>
    ELSE IF r = "\n" THEN <<"\\", "n">>
    ELSE IF r = "\t" THEN <<"\\", "t">>
    ELSE <<r>>

RECURSIVE escapeAll(_)
escapeAll(s) == IF s = <<>> THEN <<>> ELSE escapeRune(s[1]) \o escapeAll(Tail(s))

Quote(s) == <<"\"">> \o escapeAll(s) \o <<"\"">>

-----------------------------------------------------------------------------
(* slog values, attributes and records *)

StringValue(s) == [kind |-> "String", s |-> s]
Int64Value(n) == [kind |-> "Int64", n |-> n]
BoolValue(b) == [kind |-> "Bool", b |-> b]
DurationValue(d) == [kind |-> "Duration", d |-> d]
TimeValue(t) == [kind |-> "Time", t |-> t]
GroupValue(as) == [kind |-> "Group", attrs |-> as]
\* slog.Any(key, err), slog.Any(key, x) for another x, and the zero Value
AnyError(msg) == [kind |-> "Any", dyn |-> "error", text |-> msg]
AnyOther(text) == [kind |-> "Any", dyn |-> "other", text |-> text]
AnyNil == [kind |-> "Any", dyn |-> "nil", text |-> <<"<", "n", "i", "l", ">">>]

Attr(k, v) == [key |-> k, value |-> v]

\* slog.Attr{}
ZeroAttr == Attr(<<>>, AnyNil)

\* a.Equal(slog.Attr{}): the key and the value are both the zero value
IsZeroAttr(a) == a.key = <<>> /\ a.value = AnyNil

LevelDebug == -4
LevelInfo == 0
LevelWarn == 4
LevelError == 8

\* strconv.Itoa / the %d verb
RECURSIVE natStr(_)
natStr(n) ==
    IF n < 10 THEN <<Printable[n + 16]>>
    ELSE natStr(n \div 10) \o <<Printable[(n % 10) + 16]>>

intStr(n) == IF n < 0 THEN <<"-">> \o natStr(0 - n) ELSE natStr(n)

\* time.Duration.String() and Time.Format(RFC3339) for the durations (in ms)
\* and the one instant the model uses
durationString(d) ==
    IF d = 0 THEN <<"0", "s">>
    ELSE IF d % 1000 = 0 THEN natStr(d \div 1000) \o <<"s">>
    ELSE natStr(d) \o <<"m", "s">>

TheInstant == "t0"

rfc3339(t) ==
    <<"2", "0", "2", "4", "-", "0", "1", "-", "0", "2", "T",
      "0", "9", ":", "3", "0", ":", "0", "0", "Z">>

\* the layouts Options.TimeFormat takes: unset, and the default "15:04:05"
LayoutUnset == <<>>
LayoutClock == <<"1", "5", ":", "0", "4", ":", "0", "5">>

\* r.Time.Format(layout)
timeFormat(t, layout) ==
    IF layout = LayoutClock THEN <<"0", "9", ":", "3", "0", ":", "0", "0">>
    ELSE layout

\* slog.Value.String(): the text the default branch of formatAttr prints
RECURSIVE valueString(_)
valueString(v) ==
    IF v.kind = "String" THEN v.s
    ELSE IF v.kind = "Int64" THEN intStr(v.n)
    ELSE IF v.kind = "Bool" THEN (IF v.b THEN str_true ELSE str_false)
    ELSE IF v.kind = "Duration" THEN durationString(v.d)
    ELSE IF v.kind = "Time" THEN rfc3339(v.t)
    ELSE IF v.kind = "Group"
    THEN <<"[">>
         \o Join([i \in 1..Len(v.attrs) |->
                    v.attrs[i].key \o <<"=">> \o valueString(v.attrs[i].value)],
                 <<" ">>)
         \o <<"]">>
    ELSE v.text

-----------------------------------------------------------------------------
(* The pure formatting helpers of handler.go *)

messageWidth == 40

colorReset == <<"<ESC>", "[", "0", "m">>
colorRed == <<"<ESC>", "[", "3", "1", "m">>
colorYellow == <<"<ESC>", "[", "3", "3", "m">>
colorBlue == <<"<ESC>", "[", "3", "4", "m">>
colorGray == <<"<ESC>", "[", "9", "0", "m">>

\* mutant of formatLevel: the thresholds are compared with > instead of >=
formatLevel_exclusive(level, disableColor) ==
    LET levelStr == IF level > LevelError THEN <<"E", "R", "R", "O", "R">>
                    ELSE IF level > LevelWarn THEN <<"W", "A", "R", "N", " ">>
                    ELSE IF level > LevelInfo THEN <<"I", "N", "F", "O", " ">>
                    ELSE <<"D", "E", "B", "U", "G">>
        colorCode == IF level > LevelError THEN colorRed
                     ELSE IF level > LevelWarn THEN colorYellow
                     ELSE IF level > LevelInfo THEN colorBlue
                     ELSE colorGray
    IN IF disableColor THEN levelStr ELSE colorCode \o levelStr \o colorReset

formatLevel(level, disableColor) ==
    LET levelStr == IF level >= LevelError THEN <<"E", "R", "R", "O", "R">>
                    ELSE IF level >= LevelWarn THEN <<"W", "A", "R", "N", " ">>
                    ELSE IF level >= LevelInfo THEN <<"I", "N", "F", "O", " ">>
                    ELSE <<"D", "E", "B", "U", "G">>
        colorCode == IF level >= LevelError THEN colorRed
                     ELSE IF level >= LevelWarn THEN colorYellow
                     ELSE IF level >= LevelInfo THEN colorBlue
                     ELSE colorGray
    IN IF disableColor THEN levelStr ELSE colorCode \o levelStr \o colorReset

\* mutant of formatAttr: a string value is never quoted
formatAttr_neverQuoted(attr, disableColor) ==
    IF IsZeroAttr(attr) THEN <<>>
    ELSE attr.key \o <<"=">> \o valueString(attr.value)

\* mutant of formatAttr: an error is quoted only when its message needs it
formatAttr_errorLikeString(attr, disableColor) ==
    IF attr.value.kind = "Any" /\ attr.value.dyn = "error"
    THEN formatAttr_neverQuoted(Attr(attr.key, StringValue(
             IF needsQuoting(attr.value.text) THEN Quote(attr.value.text)
             ELSE attr.value.text)), disableColor)
    ELSE IF attr.value.kind = "String" /\ needsQuoting(attr.value.s)
    THEN attr.key \o <<"=">> \o Quote(attr.value.s)
    ELSE formatAttr_neverQuoted(attr, disableColor)

formatAttr(attr, disableColor) ==
    IF IsZeroAttr(attr) THEN <<>>
    ELSE LET key == attr.key
             val == attr.value
         IN IF val.kind = "String"
            THEN IF needsQuoting(val.s)
                 THEN key \o <<"=">> \o Quote(val.s)
                 ELSE key \o <<"=">> \o val.s
            ELSE IF val.kind = "Time" THEN key \o <<"=">> \o rfc3339(val.t)
            ELSE IF val.kind = "Duration" THEN key \o <<"=">> \o durationString(val.d)
            ELSE IF val.kind = "Any" /\ val.dyn = "error"
            THEN key \o <<"=">> \o Quote(val.text)
            ELSE key \o <<"=">> \o valueString(val)

\* utf8.RuneCountInString: a lead byte with its continuation byte is one rune,
\* any other byte (also a stray lead or continuation byte) counts as one
LeadByte == "<C3>"
ContByte == "<A9>"

RECURSIVE runeCount(_)
runeCount(s) ==
    IF s = <<>> THEN 0
    ELSE IF Len(s) >= 2 /\ s[1] = LeadByte /\ s[2] = ContByte
    THEN 1 + runeCount(Tail(Tail(s)))
    ELSE 1 + runeCount(Tail(s))

\* fmt rejects a '*' width above this and prints the bad-width marker instead
fmtMaxWidth == 1000000

badWidthString == <<"%", "!", "(", "B", "A", "D", "W", "I", "D", "T", "H", ")">>

\* fmt.Sprintf("%-*s", width, s): left-aligned, padded to width runes
sprintfPadRight(width, s) ==
    IF width > fmtMaxWidth THEN badWidthString \o s
    ELSE IF runeCount(s) >= width THEN s
    ELSE s \o Spaces(width - runeCount(s))

\* lines 68-83 of Handle: the message column
formatMessage(msg, optWidth) ==
    LET width == IF optWidth <= 0 THEN messageWidth ELSE optWidth
        message == IF Len(msg) > width
                   THEN IF width > 3
                        THEN Slice(msg, 1, width - 3) \o <<".", ".", ".">>
                        ELSE Slice(msg, 1, width)
                   ELSE msg
    IN sprintfPadRight(width, message)

-----------------------------------------------------------------------------
(* Options, Go slices, and the slog handler a Handler delegates to *)

NilWriter == "nil"
\* a *Options is <<>> (nil) or <<o>> (a pointer to the value o)
NilOptions == <<>>

Options(level, writer, timeFmt, disableColor, addSource, width, useJSON) ==
    [Level |-> level, Writer |-> writer, TimeFormat |-> timeFmt,
     DisableColor |-> disableColor, AddSource |-> addSource,
     MessageWidth |-> width, UseJSON |-> useJSON]

DefaultOptions ==
    Options(LevelInfo, NilWriter, LayoutClock, FALSE, TRUE, 40, FALSE)

\* A slice is a backing array (0 = none: the nil slice) and a length; its
\* capacity is the length of the backing array.
NilSlice == [arr |-> 0, len |-> 0]

capOf(arrs, sl) == IF sl.arr = 0 THEN 0 ELSE Len(arrs[sl.arr])

elemsOf(arrs, sl) == IF sl.arr = 0 THEN <<>> ELSE Slice(arrs[sl.arr], 1, sl.len)

\* the runtime's growth rule for small slices (nextslicecap)
nextslicecap(newLen, oldCap) == IF newLen > 2 * oldCap THEN newLen ELSE 2 * oldCap

\* append(sl, elems...): in place when the capacity allows, else a new array
append(arrs, sl, elems, zero) ==
    LET need == sl.len + Len(elems)
        cap == capOf(arrs, sl)
    IN IF elems = <<>> THEN [arrs |-> arrs, sl |-> sl]
       ELSE IF need <= cap
       THEN [arrs |-> [arrs EXCEPT ![sl.arr] =
                          [i \in 1..cap |-> IF i > sl.len /\ i <= need
                                            THEN elems[i - sl.len]
                                            ELSE arrs[sl.arr][i]]],
             sl |-> [arr |-> sl.arr, len |-> need]]
       ELSE LET newcap == nextslicecap(need, cap)
                old == elemsOf(arrs, sl)
            IN [arrs |-> Append(arrs,
                           [i \in 1..newcap |-> IF i <= sl.len THEN old[i]
                                                ELSE IF i <= need THEN elems[i - sl.len]
                                                ELSE zero]),
                sl |-> [arr |-> Len(arrs) + 1, len |-> need]]

\* The slog.JSONHandler / slog.TextHandler behind Handler.h (a commonHandler):
\* its level, the groups opened by WithGroup, how many of them are already
\* open in the preformatted attributes, and the preformatted attributes, each
\* with the path of objects it is nested in.
SlogHandler(json, w, level, addSource) ==
    [json |-> json, w |-> w, level |-> level, addSource |-> addSource,
     groups |-> <<>>, nOpenGroups |-> 0, pre |-> <<>>]

\* mutant of slogEnabled: the minimum level itself is refused
slogEnabled_strict(sh, level) == level > sh.level

\* commonHandler.enabled
slogEnabled(sh, level) == level >= sh.level

\* the JSON encoding of a scalar value
jsonValue(v) ==
    IF v.kind = "String" THEN [t |-> "string", s |-> v.s]
    ELSE IF v.kind = "Int64" THEN [t |-> "number", s |-> intStr(v.n)]
    ELSE IF v.kind = "Bool" THEN [t |-> "bool", s |-> IF v.b THEN str_true ELSE str_false]
    ELSE IF v.kind = "Duration" THEN [t |-> "number", s |-> natStr(v.d * 1000000)]
    ELSE IF v.kind = "Time" THEN [t |-> "string", s |-> rfc3339(v.t)]
    ELSE IF v.dyn = "nil" THEN [t |-> "null", s |-> <<"n", "u", "l", "l">>]
    ELSE [t |-> "string", s |-> v.text]

\* handleState.appendAttr inside the objects named by path: the members the
\* attribute contributes (none for an empty attribute or an empty group; a
\* group nests its members under its key, or inlines them when the key is "")
RECURSIVE jsonMembers(_, _)
jsonMembers(path, a) ==
    IF IsZeroAttr(a) THEN <<>>
    ELSE IF a.value.kind = "Group"
    THEN Concat([i \in 1..Len(a.value.attrs) |->
                   jsonMembers(IF a.key = <<>> THEN path ELSE Append(path, a.key),
                               a.value.attrs[i])])
    ELSE <<[path |-> path, key |-> a.key, val |-> jsonValue(a.value)]>>

jsonMembersAll(path, as) == Concat([i \in 1..Len(as) |-> jsonMembers(path, as[i])])

\* commonHandler.withAttrs: the same handler when nothing is added
slogWithAttrs(sh, as) ==
    LET ms == jsonMembersAll(sh.groups, as)
    IN IF ms = <<>> THEN sh
       ELSE [sh EXCEPT !.pre = sh.pre \o ms, !.nOpenGroups = Len(sh.groups)]

\* commonHandler.withGroup
slogWithGroup(sh, name) == [sh EXCEPT !.groups = Append(sh.groups, name)]

\* slog.Level.String(): the name of the level at or below, plus the offset
levelString(l) ==
    LET str(base, d) == IF d = 0 THEN base
                        ELSE base \o (IF d > 0 THEN <<"+">> ELSE <<>>) \o intStr(d)
    IN IF l < LevelInfo THEN str(<<"D", "E", "B", "U", "G">>, l - LevelDebug)
       ELSE IF l < LevelWarn THEN str(<<"I", "N", "F", "O">>, l - LevelInfo)
       ELSE IF l < LevelError THEN str(<<"W", "A", "R", "N">>, l - LevelWarn)
       ELSE str(<<"E", "R", "R", "O", "R">>, l - LevelError)

str_time == <<"t", "i", "m", "e">>
str_level == <<"l", "e", "v", "e", "l">>
str_msg == <<"m", "s", "g">>
str_source == <<"s", "o", "u", "r", "c", "e">>

\* commonHandler.handle in JSON mode: the object written for record r
slogJSONObject(sh, r) ==
    LET builtins ==
            <<[path |-> <<>>, key |-> str_time, val |-> [t |-> "string", s |-> rfc3339(r.time)]],
              [path |-> <<>>, key |-> str_level, val |-> [t |-> "string", s |-> levelString(r.level)]]>>
            \o (IF sh.addSource
                THEN <<[path |-> <<>>, key |-> str_source, val |-> [t |-> "source", s |-> intStr(r.pc)]]>>
                ELSE <<>>)
            \o <<[path |-> <<>>, key |-> str_msg, val |-> [t |-> "string", s |-> r.msg]]>>
    IN [fmt |-> "json",
        members |-> builtins \o sh.pre \o jsonMembersAll(sh.groups, r.attrs)]

-----------------------------------------------------------------------------
(* Handler: rendering *)

Record(level, msg, attrs, pc) ==
    [time |-> TheInstant, level |-> level, msg |-> msg, attrs |-> attrs, pc |-> pc]

\* runtime.CallersFrames for the program counters the model uses: pc 1 is a
\* call site in /a/m.go line 7, any other pc resolves to no file
callerFrame(pc) ==
    IF pc = 1 THEN [File |-> <<"/", "a", "/", "m", ".", "g", "o">>, Line |-> 7]
    ELSE [File |-> <<>>, Line |-> 0]

\* mutant of appendAttrs: the group prefix is not applied
appendAttrs_noPrefix(groups, disableColor, attrs, newAttrs) ==
    attrs \o [i \in 1..Len(newAttrs) |-> formatAttr(newAttrs[i], disableColor)]

\* Handler.appendAttrs, with h.groups and h.opts.DisableColor as arguments
appendAttrs(groups, disableColor, attrs, newAttrs) ==
    LET prefix == Join(groups, <<".">>)
    IN attrs \o [i \in 1..Len(newAttrs) |->
                   formatAttr(Attr(IF prefix # <<>>
                                   THEN prefix \o <<".">> \o newAttrs[i].key
                                   ELSE newAttrs[i].key,
                                   newAttrs[i].value),
                              disableColor)]

\* lines 101-113 of Handle: the source attribute, when there is one
sourceAttrs(opts, r) ==
    IF opts.AddSource /\ r.pc # 0
    THEN LET f == callerFrame(r.pc)
             i == LastIndex(f.File, "/")
             shortFile == IF i # 0 THEN Slice(f.File, i + 1, Len(f.File)) ELSE f.File
         IN IF f.File # <<>>
            THEN <<formatAttr(Attr(str_source, StringValue(shortFile \o <<":">> \o intStr(f.Line))),
                              opts.DisableColor)>>
            ELSE <<>>
    ELSE <<>>

\* mutant of textLine: the record's attributes get no group prefix
textLine_recordUnprefixed(opts, hattrs, hgroups, r) ==
    LET timeStr == timeFormat(r.time, opts.TimeFormat)
        levelStr == formatLevel(r.level, opts.DisableColor)
        formattedMessage == formatMessage(r.msg, opts.MessageWidth)
        head == <<"[">> \o timeStr \o <<"]", " ">> \o levelStr \o <<" ">> \o formattedMessage
        bound == appendAttrs(hgroups, opts.DisableColor, <<>>, hattrs)
        withRec == appendAttrs(<<>>, opts.DisableColor, bound, r.attrs)
        attrs == withRec \o sourceAttrs(opts, r)
    IN head
       \o (IF Len(attrs) > 0 THEN <<" ">> \o Join(attrs, <<" ">>) ELSE <<>>)
       \o <<"\n">>

\* mutant of textLine: the attributes follow the message column directly
textLine_noSeparator(opts, hattrs, hgroups, r) ==
    LET timeStr == timeFormat(r.time, opts.TimeFormat)
        levelStr == formatLevel(r.level, opts.DisableColor)
        formattedMessage == formatMessage(r.msg, opts.MessageWidth)
        head == <<"[">> \o timeStr \o <<"]", " ">> \o levelStr \o <<" ">> \o formattedMessage
        bound == appendAttrs(hgroups, opts.DisableColor, <<>>, hattrs)
        withRec == appendAttrs(hgroups, opts.DisableColor, bound, r.attrs)
        attrs == withRec \o sourceAttrs(opts, r)
    IN head \o Join(attrs, <<" ">>) \o <<"\n">>

\* mutant of textLine: the record's attributes are put before the bound ones
textLine_recordFirst(opts, hattrs, hgroups, r) ==
    LET timeStr == timeFormat(r.time, opts.TimeFormat)
        levelStr == formatLevel(r.level, opts.DisableColor)
        formattedMessage == formatMessage(r.msg, opts.MessageWidth)
        head == <<"[">> \o timeStr \o <<"]", " ">> \o levelStr \o <<" ">> \o formattedMessage
        rec == appendAttrs(hgroups, opts.DisableColor, <<>>, r.attrs)
        withBound == appendAttrs(hgroups, opts.DisableColor, rec, hattrs)
        attrs == withBound \o sourceAttrs(opts, r)
    IN head
       \o (IF Len(attrs) > 0 THEN <<" ">> \o Join(attrs, <<" ">>) ELSE <<>>)
       \o <<"\n">>

\* lines 62-122 of Handle: the line a text-mode handler with these options,
\* bound attributes and groups builds for record r
textLine(opts, hattrs, hgroups, r) ==
    LET timeStr == timeFormat(r.time, opts.TimeFormat)
        levelStr == formatLevel(r.level, opts.DisableColor)
        formattedMessage == formatMessage(r.msg, opts.MessageWidth)
        head == <<"[">> \o timeStr \o <<"]", " ">> \o levelStr \o <<" ">> \o formattedMessage
        bound == appendAttrs(hgroups, opts.DisableColor, <<>>, hattrs)
        withRec == appendAttrs(hgroups, opts.DisableColor, bound, r.attrs)
        attrs == withRec \o sourceAttrs(opts, r)
    IN head
       \o (IF Len(attrs) > 0 THEN <<" ">> \o Join(attrs, <<" ">>) ELSE <<>>)
       \o <<"\n">>

\* what a handler hands to its writer for record r (the gate aside): h is the
\* Handler, aArr and gArr the backing arrays, sh the slog handler behind h.h
outputOf(h, aArr, gArr, sh, r) ==
    IF h.opts.UseJSON
    THEN slogJSONObject(sh, r)
    ELSE [fmt |-> "text",
          bytes |-> textLine(h.opts, elemsOf(aArr, h.attrs), elemsOf(gArr, h.groups), r)]

output(id, r) == outputOf(handlers[id], attrArr, grpArr, jh[handlers[id].h], r)

-----------------------------------------------------------------------------
(* Handler: operations *)

NoError == "nil"
ErrSink == "sink error"

\* mutant of nilWriterPanics: the writer is only checked when options are given
nilWriterPanics_optsOnly(w, opts) == w = NilWriter /\ opts # NilOptions

\* the "ensure we have a writer" check of NewHandler
nilWriterPanics(w, opts) == w = NilWriter

\* mutant of NewHandler: the writer is set through the caller's pointer
\* (opts.Writer = w) before the options are copied
NewHandler_writesThroughPointer(w, opts) ==
    /\ handlers = <<>>
    /\ call' = [op |-> "NewHandler", w |-> w, opts |-> opts]
    /\ LET o == IF opts = NilOptions THEN DefaultOptions ELSE opts[1]
           options == [o EXCEPT !.Writer = w]
       IN IF nilWriterPanics(w, opts)
          THEN /\ ret' = [panic |-> TRUE, h |-> 0]
               /\ UNCHANGED <<handlers, jh, hist, callerOpts>>
          ELSE /\ jh' = Append(jh, SlogHandler(o.UseJSON, w, o.Level, o.AddSource))
               /\ handlers' = Append(handlers,
                                 [h |-> Len(jh) + 1, opts |-> options, mu |-> "unlocked",
                                  attrs |-> NilSlice, groups |-> NilSlice])
               /\ hist' = Append(hist, [op |-> "NewHandler", parent |-> 0, opts |-> o])
               /\ ret' = [panic |-> FALSE, h |-> Len(handlers) + 1]
               /\ callerOpts' = IF opts # NilOptions /\ opts = callerOpts
                                THEN <<options>> ELSE callerOpts
    /\ UNCHANGED <<attrArr, grpArr, sink, callers>>

\* NewHandler(w, opts)
NewHandler(w, opts) ==
    /\ handlers = <<>>
    /\ call' = [op |-> "NewHandler", w |-> w, opts |-> opts]
    /\ LET o == IF opts = NilOptions THEN DefaultOptions ELSE opts[1]
           options == [o EXCEPT !.Writer = w]
       IN IF nilWriterPanics(w, opts)
          THEN /\ ret' = [panic |-> TRUE, h |-> 0]
               /\ UNCHANGED <<handlers, jh, hist>>
          ELSE /\ jh' = Append(jh, SlogHandler(o.UseJSON, w, o.Level, o.AddSource))
               /\ handlers' = Append(handlers,
                                 [h |-> Len(jh) + 1, opts |-> options, mu |-> "unlocked",
                                  attrs |-> NilSlice, groups |-> NilSlice])
               /\ hist' = Append(hist, [op |-> "NewHandler", parent |-> 0, opts |-> o])
               /\ ret' = [panic |-> FALSE, h |-> Len(handlers) + 1]
    /\ UNCHANGED <<attrArr, grpArr, sink, callers, callerOpts>>

\* Handler.Enabled(ctx, level)
Enabled(id, level) ==
    /\ id \in 1..Len(handlers)
    /\ call' = [op |-> "Enabled", h |-> id, level |-> level]
    /\ ret' = [ok |-> slogEnabled(jh[handlers[id].h], level)]
    /\ UNCHANGED <<handlers, attrArr, grpArr, jh, sink, hist, callers, callerOpts>>

\* mutant of Handle: no early return for a record below the minimum level
Handle_ungated(id, r, wres) ==
    /\ id \in 1..Len(handlers)
    /\ call' = [op |-> "Handle", h |-> id, r |-> r]
    /\ LET h == handlers[id]
       IN /\ h.opts.UseJSON \/ h.mu = "unlocked"
          /\ sink' = Append(sink,
                       [to |-> IF h.opts.UseJSON THEN jh[h.h].w ELSE h.opts.Writer,
                        data |-> output(id, r), res |-> wres,
                        by |-> id, rec |-> r, nh |-> Len(handlers)])
          /\ ret' = [err |-> wres]
    /\ UNCHANGED <<handlers, attrArr, grpArr, jh, hist, callers, callerOpts>>

\* mutant of Handle: the result of the write is dropped
Handle_swallow(id, r, wres) ==
    /\ id \in 1..Len(handlers)
    /\ call' = [op |-> "Handle", h |-> id, r |-> r]
    /\ LET h == handlers[id]
       IN IF ~slogEnabled(jh[h.h], r.level)
          THEN /\ ret' = [err |-> NoError]
               /\ sink' = sink
          ELSE /\ h.opts.UseJSON \/ h.mu = "unlocked"
               /\ sink' = Append(sink,
                            [to |-> IF h.opts.UseJSON THEN jh[h.h].w ELSE h.opts.Writer,
                             data |-> output(id, r), res |-> wres,
                             by |-> id, rec |-> r, nh |-> Len(handlers)])
               /\ ret' = [err |-> NoError]
    /\ UNCHANGED <<handlers, attrArr, grpArr, jh, hist, callers, callerOpts>>

\* Handler.Handle(ctx, r); wres is what the writer answers if it is written to
\* mutant of Handle: the record's attributes are collected into h.attrs
Handle_keepsRecordAttrs(id, r, wres) ==
    /\ id \in 1..Len(handlers)
    /\ call' = [op |-> "Handle", h |-> id, r |-> r]
    /\ LET h == handlers[id]
           a == append(attrArr, h.attrs, r.attrs, ZeroAttr)
       IN IF ~slogEnabled(jh[h.h], r.level)
          THEN /\ ret' = [err |-> NoError]
               /\ UNCHANGED <<sink, handlers, attrArr>>
          ELSE /\ h.opts.UseJSON \/ h.mu = "unlocked"
               /\ sink' = Append(sink,
                            [to |-> IF h.opts.UseJSON THEN jh[h.h].w ELSE h.opts.Writer,
                             data |-> output(id, r), res |-> wres,
                             by |-> id, rec |-> r, nh |-> Len(handlers)])
               /\ ret' = [err |-> wres]
               /\ IF h.opts.UseJSON
                  THEN UNCHANGED <<handlers, attrArr>>
                  ELSE /\ attrArr' = a.arrs
                       /\ handlers' = [handlers EXCEPT ![id].attrs = a.sl]
    /\ UNCHANGED <<grpArr, jh, hist, callers, callerOpts>>

Handle(id, r, wres) ==
    /\ id \in 1..Len(handlers)
    /\ call' = [op |-> "Handle", h |-> id, r |-> r]
    /\ LET h == handlers[id]
       IN IF ~slogEnabled(jh[h.h], r.level)
          THEN /\ ret' = [err |-> NoError]
               /\ sink' = sink
          ELSE /\ h.opts.UseJSON \/ h.mu = "unlocked"
               /\ sink' = Append(sink,
                            [to |-> IF h.opts.UseJSON THEN jh[h.h].w ELSE h.opts.Writer,
                             data |-> output(id, r), res |-> wres,
                             by |-> id, rec |-> r, nh |-> Len(handlers)])
               /\ ret' = [err |-> wres]
    /\ UNCHANGED <<handlers, attrArr, grpArr, jh, hist, callers, callerOpts>>

\* h2 := *h copies the sync.Mutex inside the struct without synchronisation:
\* the copy of a mutex that is unlocked is unlocked; the copy of one that is
\* held at that moment holds either state, the read racing with Lock/Unlock
copiedMutex(mu) == {mu, "unlocked"}

\* mutant of WithAttrs: the attributes are added to the receiver as well
WithAttrs_inPlace(id, as) ==
    /\ id \in 1..Len(handlers)
    /\ call' = [op |-> "WithAttrs", h |-> id, attrs |-> as]
    /\ ret' = [h |-> Len(handlers) + 1]
    /\ hist' = Append(hist, [op |-> "WithAttrs", parent |-> id, attrs |-> as])
    /\ LET h == handlers[id]
       IN IF h.opts.UseJSON
          THEN /\ jh' = Append([jh EXCEPT ![h.h] = slogWithAttrs(jh[h.h], as)],
                               slogWithAttrs(jh[h.h], as))
               /\ handlers' = Append(handlers,
                                 [h |-> Len(jh) + 1, opts |-> h.opts, mu |-> "unlocked",
                                  attrs |-> NilSlice, groups |-> NilSlice])
               /\ UNCHANGED attrArr
          ELSE LET a == append(attrArr, h.attrs, as, ZeroAttr)
               IN /\ attrArr' = a.arrs
                  /\ handlers' = Append([handlers EXCEPT ![id].attrs = a.sl],
                                        [h EXCEPT !.attrs = a.sl])
                  /\ UNCHANGED jh
    /\ UNCHANGED <<grpArr, sink, callers, callerOpts>>

\* Handler.WithAttrs(attrs)
WithAttrs(id, as) ==
    /\ id \in 1..Len(handlers)
    /\ call' = [op |-> "WithAttrs", h |-> id, attrs |-> as]
    /\ ret' = [h |-> Len(handlers) + 1]
    /\ hist' = Append(hist, [op |-> "WithAttrs", parent |-> id, attrs |-> as])
    /\ LET h == handlers[id]
       IN IF h.opts.UseJSON
          THEN /\ jh' = Append(jh, slogWithAttrs(jh[h.h], as))
               /\ handlers' = Append(handlers,
                                 [h |-> Len(jh) + 1, opts |-> h.opts, mu |-> "unlocked",
                                  attrs |-> NilSlice, groups |-> NilSlice])
               /\ UNCHANGED attrArr
          ELSE LET a == append(attrArr, h.attrs, as, ZeroAttr)
               IN /\ attrArr' = a.arrs
                  /\ \E m \in copiedMutex(h.mu) :
                        handlers' = Append(handlers, [h EXCEPT !.attrs = a.sl, !.mu = m])
                  /\ UNCHANGED jh
    /\ UNCHANGED <<grpArr, sink, callers, callerOpts>>

\* mutant of WithGroup: JSON mode takes the text-mode path, so the group never
\* reaches the JSON encoder
WithGroup_noDelegate(id, name) ==
    /\ id \in 1..Len(handlers)
    /\ call' = [op |-> "WithGroup", h |-> id, name |-> name]
    /\ ret' = [h |-> Len(handlers) + 1]
    /\ hist' = Append(hist, [op |-> "WithGroup", parent |-> id, name |-> name])
    /\ LET h == handlers[id]
           g == append(grpArr, h.groups, <<name>>, <<>>)
       IN /\ grpArr' = g.arrs
          /\ handlers' = Append(handlers, [h EXCEPT !.groups = g.sl])
          /\ UNCHANGED jh
    /\ UNCHANGED <<attrArr, sink, callers, callerOpts>>

\* mutant of WithGroup: the handler built in JSON mode is given no options
WithGroup_optionsForgotten(id, name) ==
    /\ id \in 1..Len(handlers)
    /\ call' = [op |-> "WithGroup", h |-> id, name |-> name]
    /\ ret' = [h |-> Len(handlers) + 1]
    /\ hist' = Append(hist, [op |-> "WithGroup", parent |-> id, name |-> name])
    /\ LET h == handlers[id]
       IN IF h.opts.UseJSON
          THEN /\ jh' = Append(jh, slogWithGroup(jh[h.h], name))
               /\ handlers' = Append(handlers,
                                 [h |-> Len(jh) + 1,
                                  opts |-> Options(0, NilWriter, <<>>, FALSE, FALSE, 0, FALSE),
                                  mu |-> "unlocked",
                                  attrs |-> NilSlice, groups |-> NilSlice])
               /\ UNCHANGED grpArr
          ELSE LET g == append(grpArr, h.groups, <<name>>, <<>>)
               IN /\ grpArr' = g.arrs
                  /\ \E m \in copiedMutex(h.mu) :
                        handlers' = Append(handlers, [h EXCEPT !.groups = g.sl, !.mu = m])
                  /\ UNCHANGED jh
    /\ UNCHANGED <<attrArr, sink, callers, callerOpts>>

\* Handler.WithGroup(name)
WithGroup(id, name) ==
    /\ id \in 1..Len(handlers)
    /\ call' = [op |-> "WithGroup", h |-> id, name |-> name]
    /\ ret' = [h |-> Len(handlers) + 1]
    /\ hist' = Append(hist, [op |-> "WithGroup", parent |-> id, name |-> name])
    /\ LET h == handlers[id]
       IN IF h.opts.UseJSON
          THEN /\ jh' = Append(jh, slogWithGroup(jh[h.h], name))
               /\ handlers' = Append(handlers,
                                 [h |-> Len(jh) + 1, opts |-> h.opts, mu |-> "unlocked",
                                  attrs |-> NilSlice, groups |-> NilSlice])
               /\ UNCHANGED grpArr
          ELSE LET g == append(grpArr, h.groups, <<name>>, <<>>)
               IN /\ grpArr' = g.arrs
                  /\ \E m \in copiedMutex(h.mu) :
                        handlers' = Append(handlers, [h EXCEPT !.groups = g.sl, !.mu = m])
                  /\ UNCHANGED jh
    /\ UNCHANGED <<attrArr, sink, callers, callerOpts>>

\* Handle, step by step, for goroutine t.  Lines 48-57: the level gate; a
\* disabled record returns at once, an enabled one goes on to the lock.  (The
\* JSON delegation of line 56 is the whole of Handle above.)
HandleBegin(t, id, r) ==
    /\ id \in 1..Len(handlers)
    /\ ~handlers[id].opts.UseJSON
    /\ callers[t].pc = "idle"
    /\ call' = [op |-> "Handle", h |-> id, r |-> r]
    /\ IF ~slogEnabled(jh[handlers[id].h], r.level)
       THEN /\ ret' = [err |-> NoError]
            /\ UNCHANGED callers
       ELSE /\ callers' = [callers EXCEPT ![t] = [pc |-> "lock", h |-> id, r |-> r]]
            /\ UNCHANGED ret
    /\ UNCHANGED <<handlers, attrArr, grpArr, jh, sink, hist, callerOpts>>

\* mutant of HandleLock: the lock is taken without waiting for it
HandleLock_noWait(t) ==
    /\ callers[t].pc = "lock"
    /\ handlers' = [handlers EXCEPT ![callers[t].h].mu = "locked"]
    /\ callers' = [callers EXCEPT ![t].pc = "locked"]
    /\ UNCHANGED <<attrArr, grpArr, jh, sink, hist, call, ret, callerOpts>>

\* line 59: h.mu.Lock()
HandleLock(t) ==
    /\ callers[t].pc = "lock"
    /\ handlers[callers[t].h].mu = "unlocked"
    /\ handlers' = [handlers EXCEPT ![callers[t].h].mu = "locked"]
    /\ callers' = [callers EXCEPT ![t].pc = "locked"]
    /\ UNCHANGED <<attrArr, grpArr, jh, sink, hist, call, ret, callerOpts>>

\* lines 62-123: the line is built and io.WriteString is called with it
HandleWrite(t) ==
    /\ callers[t].pc = "locked"
    /\ callers' = [callers EXCEPT ![t] =
                     [pc |-> "writing", h |-> callers[t].h, r |-> callers[t].r,
                      line |-> output(callers[t].h, callers[t].r)]]
    /\ UNCHANGED <<handlers, attrArr, grpArr, jh, sink, hist, call, ret, callerOpts>>

\* mutant of HandleReturn: the lock is kept when the write failed
HandleReturn_keepsLockOnError(t, wres) ==
    /\ callers[t].pc = "writing"
    /\ sink' = Append(sink,
                 [to |-> handlers[callers[t].h].opts.Writer, data |-> callers[t].line,
                  res |-> wres, by |-> callers[t].h, rec |-> callers[t].r,
                  nh |-> Len(handlers)])
    /\ handlers' = IF wres = NoError
                   THEN [handlers EXCEPT ![callers[t].h].mu = "unlocked"]
                   ELSE handlers
    /\ callers' = [callers EXCEPT ![t] = [pc |-> "idle"]]
    /\ call' = [op |-> "Handle", h |-> callers[t].h, r |-> callers[t].r]
    /\ ret' = [err |-> wres]
    /\ UNCHANGED <<attrArr, grpArr, jh, hist, callerOpts>>

\* lines 123-124 and the deferred Unlock of line 60: the write call comes
\* back with wres, the lock is released, Handle returns wres
HandleReturn(t, wres) ==
    /\ callers[t].pc = "writing"
    /\ sink' = Append(sink,
                 [to |-> handlers[callers[t].h].opts.Writer, data |-> callers[t].line,
                  res |-> wres, by |-> callers[t].h, rec |-> callers[t].r,
                  nh |-> Len(handlers)])
    /\ handlers' = [handlers EXCEPT ![callers[t].h].mu = "unlocked"]
    /\ callers' = [callers EXCEPT ![t] = [pc |-> "idle"]]
    /\ call' = [op |-> "Handle", h |-> callers[t].h, r |-> callers[t].r]
    /\ ret' = [err |-> wres]
    /\ UNCHANGED <<attrArr, grpArr, jh, hist, callerOpts>>

Init ==
    /\ handlers = <<>>
    /\ attrArr = <<>>
    /\ grpArr = <<>>
    /\ jh = <<>>
    /\ sink = <<>>
    /\ hist = <<>>
    /\ call = [op |-> "none"]
    /\ ret = [op |-> "none"]
    /\ callers = [t \in 1..MaxCallers |-> [pc |-> "idle"]]
    /\ callerOpts = NilOptions

-----------------------------------------------------------------------------
(* Spec: construction, the level gate and the write, for handlers of every   *)
(* minimum level in both modes                                               *)

TheWriter == "w"
OtherWriter == "w2"

str_hi == <<"h", "i">>
str_k == <<"k">>
str_g == <<"g">>
str_v == <<"v">>

MinLevels == {LevelDebug, LevelInfo, 2}
ProbeLevels == {-5, -4, -1, 0, 1, 2, 8}
RecordLevels == {-5, 0, 3}

GateOptions ==
    {Options(l, OtherWriter, LayoutUnset, TRUE, FALSE, 2, j) : l \in MinLevels, j \in BOOLEAN}

GateRecords == {Record(l, str_hi, <<>>, 0) : l \in RecordLevels}

Construct ==
    \E w \in {NilWriter, TheWriter}, o \in {<<x>> : x \in GateOptions} \cup {NilOptions} :
        NewHandler(w, o)

Probe == \E id \in 1..Len(handlers), l \in ProbeLevels : Enabled(id, l)

Log ==
    /\ Len(handlers) + Len(sink) < MaxOps
    /\ \E id \in 1..Len(handlers), r \in GateRecords, wres \in {NoError, ErrSink} :
          Handle(id, r, wres)

Bind ==
    /\ Len(handlers) + Len(sink) < MaxOps
    /\ \E id \in 1..Len(handlers) : WithAttrs(id, <<Attr(str_k, StringValue(str_v))>>)

Enter ==
    /\ Len(handlers) + Len(sink) < MaxOps
    /\ \E id \in 1..Len(handlers) : WithGroup(id, str_g)

Next == Construct \/ Probe \/ Log \/ Bind \/ Enter

Spec == Init /\ [][Next]_vars

-----------------------------------------------------------------------------
(* Properties of Spec *)

\* the minimum level NewHandler was given (Info when it was given no options)
ConfiguredMinimum == hist[1].opts.Level

\* C1: Enabled(L) on the root handler and on every handler derived from it, in
\* text and in JSON mode, answers true exactly when L >= the minimum level the
\* root was constructed with.
C1_EnabledIffAtLeastMinimum ==
    call.op = "Enabled" => (ret.ok <=> call.level >= ConfiguredMinimum)

\* Enabled(minimum) answered true on a derived JSON handler
C1_Witness ==
    /\ call.op = "Enabled"
    /\ call.h > 1
    /\ handlers[call.h].opts.UseJSON
    /\ call.level = ConfiguredMinimum
    /\ ret.ok

\* C2: a Handle of a record below the minimum level appends nothing to the sink
\* and returns nil, in either mode; and every write the sink ever received is
\* for a record at or above the minimum.
C2_DisabledRecordNeverWritten ==
    [][/\ \A i \in 1..Len(sink') : sink'[i].rec.level >= ConfiguredMinimum'
       /\ (call'.op = "Handle" /\ call'.r.level < ConfiguredMinimum')
              => (sink' = sink /\ ret'.err = NoError)]_vars

\* a JSON-mode handler dropped a record below its minimum after the sink had
\* already received output
C2_Witness ==
    /\ call.op = "Handle"
    /\ handlers[call.h].opts.UseJSON
    /\ call.r.level < ConfiguredMinimum
    /\ ret.err = NoError
    /\ Len(sink) >= 1

\* C8: in text mode a Handle call makes at most one write; it returns the
\* writer's own error when that write failed and nil otherwise (also when
\* nothing was written).
C8_HandleReturnsSinkError ==
    [][(call'.op = "Handle" /\ ~handlers'[call'.h].opts.UseJSON)
          => /\ Len(sink') <= Len(sink) + 1
             /\ IF Len(sink') = Len(sink) + 1
                THEN ret'.err = sink'[Len(sink')].res
                ELSE ret'.err = NoError]_vars

\* a text-mode Handle whose single write failed returned the sink's error
C8_Witness ==
    /\ call.op = "Handle"
    /\ ~handlers[call.h].opts.UseJSON
    /\ Len(sink) >= 1
    /\ sink[Len(sink)].res = ErrSink
    /\ sink[Len(sink)].rec = call.r
    /\ ret.err = ErrSink

\* C9: NewHandler panics, and creates no handler, exactly when the writer is
\* nil, whether or not options are given; with a writer it returns a handler.
C9_NilWriterPanics ==
    call.op = "NewHandler"
        => /\ ret.panic <=> call.w = NilWriter
           /\ call.w = NilWriter => (handlers = <<>> /\ ret.h = 0)
           /\ call.w # NilWriter => (Len(handlers) = 1 /\ ret.h = 1)

\* NewHandler(nil, nil) panicked
C9_Witness ==
    /\ call.op = "NewHandler"
    /\ call.w = NilWriter
    /\ call.opts = NilOptions
    /\ ret.panic
    /\ handlers = <<>>

-----------------------------------------------------------------------------------------------------------------------------------------------------
(* SpecDerive: chains of WithAttrs and WithGroup from one text-mode root      *)
(* handler.  SpecJSON: the same chains from a JSON-mode root.                *)

str_s == <<"s">>
str_ok == <<"o", "k">>
str_a == <<"a">>
str_b == <<"b">>

DeriveOptions(json) == Options(LevelInfo, NilWriter, LayoutUnset, TRUE, FALSE, 2, json)

GroupNames == {<<>>, str_g}

OneAttr == <<Attr(str_k, StringValue(str_v))>>
TwoAttrs == <<Attr(str_a, StringValue(str_v)), Attr(str_b, StringValue(str_v))>>

DeriveRecords == {Record(LevelInfo, str_hi, <<Attr(str_s, StringValue(str_ok))>>, 0)}

DeriveConstruct == NewHandler(TheWriter, <<DeriveOptions(FALSE)>>)

DeriveLog ==
    /\ Len(handlers) + Len(sink) < DeriveMaxOps
    /\ \E id \in 1..Len(handlers), r \in DeriveRecords : Handle(id, r, NoError)

DeriveBind ==
    /\ Len(handlers) + Len(sink) < DeriveMaxOps
    /\ \E id \in 1..Len(handlers), as \in {OneAttr, TwoAttrs} : WithAttrs(id, as)

DeriveEnter ==
    /\ Len(handlers) + Len(sink) < DeriveMaxOps
    /\ \E id \in 1..Len(handlers), name \in GroupNames : WithGroup(id, name)

NextDerive == DeriveConstruct \/ DeriveLog \/ DeriveBind \/ DeriveEnter

SpecDerive == Init /\ [][NextDerive]_vars

JSONConstruct == NewHandler(TheWriter, <<DeriveOptions(TRUE)>>)

JSONBind ==
    /\ Len(handlers) + Len(sink) < DeriveMaxOps
    /\ \E id \in 1..Len(handlers) : WithAttrs(id, OneAttr)

NextJSON == JSONConstruct \/ DeriveLog \/ JSONBind \/ DeriveEnter

SpecJSON == Init /\ [][NextJSON]_vars

\* history: the names given to the WithGroup calls on the way from the root
\* to handler id, in call order
RECURSIVE GroupsEntered(_)
GroupsEntered(id) ==
    IF id = 0 THEN <<>>
    ELSE GroupsEntered(hist[id].parent)
         \o (IF hist[id].op = "WithGroup" THEN <<hist[id].name>> ELSE <<>>)

NonEmptyNames(gs) == gs # <<>> /\ \A i \in 1..Len(gs) : gs[i] # <<>>

\* C4: in text mode, a handler made by WithAttrs([k=v]) after WithGroup calls
\* g1..gn (n >= 1, names not empty) writes the bound attribute as
\* g1.g2. ... .gn.k=v.
C4_BoundAttrKeyIsGroupPath ==
    \A i \in 1..Len(sink) :
        LET c == sink[i].by
            gs == GroupsEntered(c)
        IN (~handlers[c].opts.UseJSON /\ hist[c].op = "WithAttrs" /\ NonEmptyNames(gs))
           => \A j \in 1..Len(hist[c].attrs) :
                 Contains(sink[i].data.bytes,
                          <<" ">> \o Join(gs \o <<hist[c].attrs[j].key>>, <<".">>)
                                  \o <<"=">> \o hist[c].attrs[j].value.s)

\* root.WithGroup(g).WithGroup(g).WithAttrs([k=v]) wrote a line with g.g.k=v
C4_Witness ==
    \E i \in 1..Len(sink) :
        /\ ~handlers[sink[i].by].opts.UseJSON
        /\ hist[sink[i].by].op = "WithAttrs"
        /\ GroupsEntered(sink[i].by) = <<str_g, str_g>>
        /\ Contains(sink[i].data.bytes, <<" ", "g", ".", "g", ".", "k", "=", "v">>)

\* history: p is handler id or one of the handlers id was derived from
RECURSIVE DerivedFrom(_, _, _)
DerivedFrom(h, id, p) ==
    IF id = 0 THEN FALSE
    ELSE id = p \/ DerivedFrom(h, h[id].parent, p)

\* C5: a WithAttrs or WithGroup call on a handler P, or on a handler derived
\* from P, leaves what P writes for every record as it was.
C5_DerivationLeavesParentOutput ==
    [][Len(handlers') > Len(handlers)
         => \A p \in 1..Len(handlers) :
               DerivedFrom(hist', hist'[Len(handlers')].parent, p)
                  => \A r \in DeriveRecords :
                        outputOf(handlers'[p], attrArr', grpArr', jh'[handlers'[p].h], r)
                           = output(p, r)]_vars

\* a handler wrote its line after a child had appended to the backing array
\* the two share, and the line has none of the child's attributes
C5_Witness ==
    \E i \in 1..Len(sink) : \E c \in 2..Len(handlers) :
        LET p == sink[i].by
        IN /\ hist[c].parent = p
           /\ sink[i].nh >= c
           /\ handlers[c].attrs.arr = handlers[p].attrs.arr
           /\ handlers[c].attrs.len > handlers[p].attrs.len
           /\ handlers[p].attrs.len = 3
           /\ sink[i].data.bytes =
                <<"[", "]", " ", "I", "N", "F", "O", " ", " ", "h", "i", " ",
                  "a", "=", "v", " ", "b", "=", "v", " ", "k", "=", "v", " ",
                  "s", "=", "o", "k", "\n">>

\* C10: in JSON mode, a handler made by WithGroup(g) then WithAttrs([k=v])
\* (g not empty) writes a JSON object in which k and the record's own
\* attributes are members of the object nested under the entered groups,
\* ending in g, and nothing is written under a dot-joined key.
C10_JSONNestsGroups ==
    \A i \in 1..Len(sink) :
        LET c == sink[i].by
            gs == GroupsEntered(c)
            ms == sink[i].data.members
        IN (handlers[c].opts.UseJSON /\ hist[c].op = "WithAttrs"
                /\ hist[hist[c].parent].op = "WithGroup" /\ hist[hist[c].parent].name # <<>>)
           => /\ sink[i].data.fmt = "json"
              /\ gs[Len(gs)] = hist[hist[c].parent].name
              /\ \A j \in 1..Len(hist[c].attrs) :
                    \E m \in 1..Len(ms) :
                        ms[m].key = hist[c].attrs[j].key /\ ms[m].path = gs
              /\ \A j \in 1..Len(sink[i].rec.attrs) :
                    \E m \in 1..Len(ms) :
                        ms[m].key = sink[i].rec.attrs[j].key /\ ms[m].path = gs
              /\ \A m \in 1..Len(ms) : ~Contains(ms[m].key, <<".">>)

\* root.WithGroup(g).WithAttrs([k=v]) in JSON mode wrote an object with k and
\* the record's s inside the object g
C10_Witness ==
    \E i \in 1..Len(sink) :
        /\ handlers[sink[i].by].opts.UseJSON
        /\ hist[sink[i].by].op = "WithAttrs"
        /\ GroupsEntered(sink[i].by) = <<str_g>>
        /\ sink[i].data.fmt = "json"
        /\ \E m \in 1..Len(sink[i].data.members) :
              sink[i].data.members[m].key = str_k /\ sink[i].data.members[m].path = <<str_g>>
        /\ \E m \in 1..Len(sink[i].data.members) :
              sink[i].data.members[m].key = str_s /\ sink[i].data.members[m].path = <<str_g>>

-----------------------------------------------------------------------------
(* SpecMsg: the message column.  One text-mode handler of each message width  *)
(* handles one record of each message.                                       *)

\* widths: negative, zero, 1..5 around the ellipsis threshold, and one above
\* the largest width fmt accepts
MessageWidths == {-1, 0, 1, 3, 4, 5, fmtMaxWidth + 1}

MsgBytes == {"a", LeadByte, ContByte}

As(n) == [i \in 1..n |-> "a"]

\* messages of 39..42 bytes, around the default width, one of them with a
\* two-byte rune across the cut at byte 37
LongMessages ==
    {As(39), As(40), As(41), As(42), As(36) \o <<LeadByte, ContByte>> \o As(4)}

Messages == SeqsUpTo(MsgBytes, MaxMsgLen) \cup LongMessages

MsgConstruct ==
    \E w \in MessageWidths :
        NewHandler(TheWriter, <<Options(LevelInfo, NilWriter, LayoutUnset, TRUE, FALSE, w, FALSE)>>)

MsgLog ==
    /\ sink = <<>>
    /\ \E m \in Messages : Handle(1, Record(LevelInfo, m, <<>>, 0), NoError)

NextMsg == MsgConstruct \/ MsgLog

SpecMsg == Init /\ [][NextMsg]_vars

\* the message column of a written text line that carries no attribute: what
\* stands between "[time] LEVEL " and the final newline
MessageField(e) ==
    LET o == handlers[e.by].opts
        head == <<"[">> \o timeFormat(e.rec.time, o.TimeFormat) \o <<"]", " ">>
                \o formatLevel(e.rec.level, o.DisableColor) \o <<" ">>
    IN Slice(e.data.bytes, Len(head) + 1, Len(e.data.bytes) - 1)

EffectiveWidth(o) == IF o.MessageWidth > 0 THEN o.MessageWidth ELSE 40

\* C3: in text mode the message column of every line is exactly as wide (in
\* characters) as the effective width: MessageWidth when positive, else 40.
C3_MessageFieldHasEffectiveWidth ==
    \A i \in 1..Len(sink) :
        (sink[i].data.fmt = "text" /\ sink[i].rec.attrs = <<>>)
            => runeCount(MessageField(sink[i])) = EffectiveWidth(handlers[sink[i].by].opts)

-----------------------------------------------------------------------------
(* SpecQuote: needsQuoting and formatAttr, each applied once to a string *)

QuoteAlphabet == {"1", ".", "e", "-", " ", "=", "n", "a"}

QuoteVectors ==
    {<<"h", "e", "l", "l", "o">>,
     <<"h", "e", "l", "l", "o", " ", "w", "o", "r", "l", "d">>,
     str_true, str_false, str_nil,
     <<"1", "2", "3">>, <<"1", "2", ".", "5">>,
     <<"1", "e", "5", "5", "5">>, <<"1", "_", "0">>, <<"_", "1">>,
     <<"0", "x", "1", "p", "1">>, <<"0", "x", "1">>,
     <<"i", "n", "f">>, <<"+", "I", "n", "f">>, <<"i", "n", "f", "i">>,
     <<"N", "a", "N">>, <<"+", "n", "a", "n">>,
     <<"f", "i", "l", "e", " ", "n", "o", "t">>,
     <<"a", "\\", "b">>, <<"<E9>">>, <<"/", "a", "p", "i">>}
    \cup {<<"a", c>> : c \in QuotedRunes \cup {"\t", "\n", " "}}

QuoteInputs == SeqsUpTo(QuoteAlphabet, MaxStrLen) \cup QuoteVectors

NeedsQuotingCall ==
    \E s \in QuoteInputs :
        /\ call.op = "none"
        /\ call' = [op |-> "needsQuoting", s |-> s]
        /\ ret' = [ok |-> needsQuoting(s)]
        /\ UNCHANGED <<handlers, attrArr, grpArr, jh, sink, hist, callers, callerOpts>>

FormatAttrCall ==
    \E s \in QuoteInputs, c \in BOOLEAN :
        /\ call.op = "none"
        /\ call' = [op |-> "formatAttr", attr |-> Attr(str_k, StringValue(s))]
        /\ ret' = [text |-> formatAttr(Attr(str_k, StringValue(s)), c)]
        /\ UNCHANGED <<handlers, attrArr, grpArr, jh, sink, hist, callers, callerOpts>>

NextQuote == NeedsQuotingCall \/ FormatAttrCall

SpecQuote == Init /\ [][NextQuote]_vars

\* the characters the claim lists: anything up to the space, and = " ' ` [ ] { }
ListedCharacter(c) ==
    CharCode(c) <= 32 \/ c \in {"=", "\"", "'", "<grave>", "[", "]", "{", "}"}

HasListedCharacter(s) == \E i \in 1..Len(s) : ListedCharacter(s[i])

\* C6: needsQuoting is true for the empty string, false for every other string
\* that parses as a float, and otherwise true exactly for true, false, nil and
\* the strings with a listed character; with the six values the spec names.
C6_NeedsQuotingRule ==
    /\ call.op = "needsQuoting"
          => /\ call.s = <<>> => ret.ok
             /\ (call.s # <<>> /\ ParseFloatOK(call.s)) => ~ret.ok
             /\ (call.s # <<>> /\ ~ParseFloatOK(call.s))
                   => (ret.ok <=> (call.s \in {str_true, str_false, str_nil}
                                   \/ HasListedCharacter(call.s)))
             /\ call.s = <<"h", "e", "l", "l", "o">> => ~ret.ok
             /\ call.s = <<"h", "e", "l", "l", "o", " ", "w", "o", "r", "l", "d">> => ret.ok
             /\ call.s = <<"t", "r", "u", "e">> => ret.ok
             /\ call.s = <<"1", "2", "3">> => ~ret.ok
             /\ call.s = <<"1", "2", ".", "5">> => ~ret.ok

\* needsQuoting("a{") answered true
C6_Witness ==
    /\ call.op = "needsQuoting"
    /\ call.s = <<"a", "{">>
    /\ ret.ok

\* C7: formatAttr writes a string attribute as key=value, the value verbatim
\* when needsQuoting is false and in double quotes, escaped, when it is true;
\* a value written without quotes has no listed character.
C7_StringAttrQuoting ==
    call.op = "formatAttr"
        => LET k == call.attr.key
               s == call.attr.value.s
               val == Slice(ret.text, Len(k) + 2, Len(ret.text))
           IN /\ Slice(ret.text, 1, Len(k) + 1) = k \o <<"=">>
              /\ ~needsQuoting(s) => (val = s /\ ~HasListedCharacter(val))
              /\ needsQuoting(s)
                    => /\ Len(val) >= 2
                       /\ val[1] = "\"" /\ val[Len(val)] = "\""
                       /\ Slice(val, 2, Len(val) - 1) = escapeAll(s)
              /\ (val = <<>> \/ val[1] # "\"") => ~HasListedCharacter(val)

\* formatAttr wrote k="file not" for a value with a space
C7_Witness ==
    /\ call.op = "formatAttr"
    /\ call.attr.value.s = <<"f", "i", "l", "e", " ", "n", "o", "t">>
    /\ ret.text = <<"k", "=", "\"", "f", "i", "l", "e", " ", "n", "o", "t", "\"">>

-----------------------------------------------------------------------------
(* SpecLevel: the level token.  A text-mode handler that lets every level    *)
(* through, with and without color, handles one record of each level.        *)

Levels == (0 - LevelRange)..LevelRange

LevelConstruct ==
    \E c \in BOOLEAN :
        NewHandler(TheWriter,
                   <<Options(0 - LevelRange - 1, NilWriter, LayoutUnset, c, FALSE, 2, FALSE)>>)

LevelLog ==
    /\ sink = <<>>
    /\ \E l \in Levels : Handle(1, Record(l, str_hi, <<>>, 0), NoError)

NextLevel == LevelConstruct \/ LevelLog

SpecLevel == Init /\ [][NextLevel]_vars

\* how many times symbol c occurs in s
RECURSIVE Occurrences(_, _)
Occurrences(s, c) ==
    IF s = <<>> THEN 0
    ELSE (IF s[1] = c THEN 1 ELSE 0) + Occurrences(Tail(s), c)

\* the part of a written text line after "[time] "
AfterTime(e) ==
    LET head == <<"[">> \o timeFormat(e.rec.time, handlers[e.by].opts.TimeFormat) \o <<"]", " ">>
    IN Slice(e.data.bytes, Len(head) + 1, Len(e.data.bytes))

\* C11: the level token of a text line is ERROR from Error up, "WARN " from
\* Warn, "INFO " from Info, DEBUG below; bare and with no escape in the line
\* when color is disabled, else between one color code (red, yellow, blue,
\* gray) and one reset code.
C11_LevelTokenFiveWide ==
    \A i \in 1..Len(sink) :
        sink[i].data.fmt = "text"
          => LET e == sink[i]
                 l == e.rec.level
                 rest == AfterTime(e)
                 token == IF l >= 8 THEN <<"E", "R", "R", "O", "R">>
                          ELSE IF l >= 4 THEN <<"W", "A", "R", "N", " ">>
                          ELSE IF l >= 0 THEN <<"I", "N", "F", "O", " ">>
                          ELSE <<"D", "E", "B", "U", "G">>
                 code == IF l >= 8 THEN <<"3", "1">>
                         ELSE IF l >= 4 THEN <<"3", "3">>
                         ELSE IF l >= 0 THEN <<"3", "4">>
                         ELSE <<"9", "0">>
             IN /\ Len(token) = 5
                /\ IF handlers[e.by].opts.DisableColor
                   THEN /\ Slice(rest, 1, 6) = token \o <<" ">>
                        /\ Occurrences(e.data.bytes, "<ESC>") = 0
                   ELSE /\ Slice(rest, 1, 15)
                             = <<"<ESC>", "[">> \o code \o <<"m">> \o token
                               \o <<"<ESC>", "[", "0", "m", " ">>
                        /\ Occurrences(e.data.bytes, "<ESC>") = 2

\* a colored line for a record of level 7 carries the yellow "WARN " token
C11_Witness ==
    \E i \in 1..Len(sink) :
        /\ sink[i].rec.level = 7
        /\ ~handlers[sink[i].by].opts.DisableColor
        /\ Contains(sink[i].data.bytes,
                    <<"<ESC>", "[", "3", "3", "m", "W", "A", "R", "N", " ", "<ESC>", "[", "0", "m">>)

-----------------------------------------------------------------------------
(* Properties of SpecDerive: the empty group name *)

\* C12: a handler made by WithGroup("") writes, for every record, what the
\* handler it was made from writes.
C12_EmptyGroupIsNoOp ==
    \A c \in 1..Len(handlers) :
        (hist[c].op = "WithGroup" /\ hist[c].name = <<>>)
            => \A r \in DeriveRecords : output(c, r) = output(hist[c].parent, r)

-----------------------------------------------------------------------------
(* SpecOrder: the attributes of a line.  Text-mode handlers with and without *)
(* call-site capture, chains of WithAttrs and WithGroup, records with 0..2   *)
(* attributes and with program counters that are zero, resolvable (1) and    *)
(* not resolvable (2).                                                       *)

str_c == <<"c">>
str_t == <<"t">>

OrderRecords ==
    {Record(LevelInfo, str_hi, as, pc) :
        as \in {<<>>, <<Attr(str_s, StringValue(str_ok))>>,
                <<Attr(str_s, StringValue(str_ok)), Attr(str_t, StringValue(str_ok))>>},
        pc \in {0, 1, 2}}

OrderConstruct ==
    \E src \in BOOLEAN, layout \in {LayoutUnset, LayoutClock} :
        NewHandler(TheWriter, <<Options(LevelInfo, NilWriter, layout, TRUE, src, 3, FALSE)>>)

OrderLog ==
    /\ Len(handlers) + Len(sink) < OrderMaxOps
    /\ \E id \in 1..Len(handlers), r \in OrderRecords : Handle(id, r, NoError)

OrderBind ==
    /\ Len(handlers) + Len(sink) < OrderMaxOps
    /\ \E id \in 1..Len(handlers),
          as \in {<<Attr(str_a, StringValue(str_v))>>,
                  <<Attr(str_b, StringValue(str_v)), Attr(str_c, StringValue(str_v))>>} :
          WithAttrs(id, as)

OrderEnter ==
    /\ Len(handlers) + Len(sink) < OrderMaxOps
    /\ \E id \in 1..Len(handlers) : WithGroup(id, str_g)

NextOrder == OrderConstruct \/ OrderLog \/ OrderBind \/ OrderEnter

SpecOrder == Init /\ [][NextOrder]_vars

\* history: the attributes given to the WithAttrs calls on the way from the
\* root to handler id, in call order
RECURSIVE ChainAttrs(_)
ChainAttrs(id) ==
    IF id = 0 THEN <<>>
    ELSE ChainAttrs(hist[id].parent)
         \o (IF hist[id].op = "WithAttrs" THEN hist[id].attrs ELSE <<>>)

\* strings.Split(s, sep) for a one-symbol separator
RECURSIVE Split(_, _)
Split(s, sep) ==
    IF \A i \in 1..Len(s) : s[i] # sep THEN <<s>>
    ELSE LET i == CHOOSE k \in 1..Len(s) : s[k] = sep /\ \A j \in 1..(k - 1) : s[j] # sep
         IN <<Slice(s, 1, i - 1)>> \o Split(Slice(s, i + 1, Len(s)), sep)

\* the attribute section of a written text line: what follows the message
\* column, without the final newline
AttrSection(e) ==
    LET o == handlers[e.by].opts
        head == <<"[">> \o timeFormat(e.rec.time, o.TimeFormat) \o <<"]", " ">>
                \o formatLevel(e.rec.level, o.DisableColor) \o <<" ">>
                \o formatMessage(e.rec.msg, o.MessageWidth)
    IN Slice(e.data.bytes, Len(head) + 1, Len(e.data.bytes) - 1)

\* the keys of the attributes of a written line, in line order, each without
\* its group prefix
LineKeys(e) ==
    LET sec == AttrSection(e)
        toks == IF sec = <<>> THEN <<>> ELSE Split(Tail(sec), " ")
        key(t) == Split(t, "=")[1]
        last(k) == LET segs == Split(k, ".") IN segs[Len(segs)]
    IN [i \in 1..Len(toks) |-> last(key(toks[i]))]

KeysOf(as) == [i \in 1..Len(as) |-> as[i].key]

-----------------------------------------------------------------------------
(* SpecEmpty: zero-value attributes, bound and on the record, with and       *)
(* without a group.                                                          *)

EmptyBindLists ==
    {<<Attr(str_k, StringValue(str_v))>>, <<ZeroAttr>>,
     <<Attr(str_k, StringValue(str_v)), ZeroAttr>>}

EmptyRecords ==
    {Record(LevelInfo, str_hi, as, 0) :
        as \in {<<>>, <<ZeroAttr>>, <<Attr(str_s, StringValue(str_ok))>>,
                <<ZeroAttr, Attr(str_s, StringValue(str_ok))>>}}

EmptyLog ==
    /\ Len(handlers) + Len(sink) < OrderMaxOps
    /\ \E id \in 1..Len(handlers), r \in EmptyRecords : Handle(id, r, NoError)

EmptyBind ==
    /\ Len(handlers) + Len(sink) < OrderMaxOps
    /\ \E id \in 1..Len(handlers), as \in EmptyBindLists : WithAttrs(id, as)

NextEmpty == DeriveConstruct \/ EmptyLog \/ EmptyBind \/ OrderEnter

SpecEmpty == Init /\ [][NextEmpty]_vars

\* as without its zero-value attributes
StripZero(as) == SelectSeq(as, LAMBDA a : ~IsZeroAttr(a))

\* C14: a written text line is the line the same handler writes for the same
\* record with every zero-value attribute, bound or on the record, left out.
C14_ZeroAttrContributesNothing ==
    \A i \in 1..Len(sink) :
        LET e == sink[i]
            h == handlers[e.by]
        IN e.data.fmt = "text"
             => e.data.bytes
                  = textLine(h.opts, StripZero(elemsOf(attrArr, h.attrs)),
                             elemsOf(grpArr, h.groups),
                             [e.rec EXCEPT !.attrs = StripZero(e.rec.attrs)])

-----------------------------------------------------------------------------
(* Properties of SpecOrder: the shape of a line *)

\* how many attributes the handler renders for a written record: the bound
\* ones, the record's, and the source attribute when there is one
RenderedCount(e) ==
    Len(elemsOf(attrArr, handlers[e.by].attrs)) + Len(e.rec.attrs)
      + (IF /\ handlers[e.by].opts.AddSource
            /\ e.rec.pc # 0
            /\ callerFrame(e.rec.pc).File # <<>>
         THEN 1 ELSE 0)

-----------------------------------------------------------------------------
(* Properties of SpecMsg: the message column, character by character *)

\* the first k characters of s (a lead byte with its continuation byte is one
\* character, any other byte is one)
RECURSIVE RunePrefix(_, _)
RunePrefix(s, k) ==
    IF k <= 0 \/ s = <<>> THEN <<>>
    ELSE IF Len(s) >= 2 /\ s[1] = LeadByte /\ s[2] = ContByte
    THEN <<s[1], s[2]>> \o RunePrefix(Tail(Tail(s)), k - 1)
    ELSE <<s[1]>> \o RunePrefix(Tail(s), k - 1)

\* C16: with effective width W and a message m of n characters, the message
\* column is m and W-n spaces when n <= W, the first W-3 characters of m and
\* "..." when n > W > 3, and the first W characters of m when n > W and W <= 3.
C16_MessageFieldRule ==
    \A i \in 1..Len(sink) :
        LET e == sink[i]
            m == e.rec.msg
            W == EffectiveWidth(handlers[e.by].opts)
            n == runeCount(m)
        IN (e.data.fmt = "text" /\ e.rec.attrs = <<>>)
             => MessageField(e) = IF n <= W THEN m \o Spaces(W - n)
                                  ELSE IF W > 3 THEN RunePrefix(m, W - 3) \o <<".", ".", ".">>
                                  ELSE RunePrefix(m, W)

-----------------------------------------------------------------------------
(* Properties of SpecDerive: the record's own attributes *)

EndsWith(s, suffix) ==
    Len(s) >= Len(suffix) /\ Slice(s, Len(s) - Len(suffix) + 1, Len(s)) = suffix

\* C17: in text mode the attribute of the record itself is written with the
\* key g1. ... .gn.k when the handler has entered the groups g1..gn (names not
\* empty), and with the key k when it has entered none.
C17_RecordAttrKeyIsGroupPath ==
    \A i \in 1..Len(sink) :
        LET e == sink[i]
            gs == GroupsEntered(e.by)
            a == e.rec.attrs[1]
        IN (e.data.fmt = "text" /\ (gs = <<>> \/ NonEmptyNames(gs)))
             => EndsWith(e.data.bytes,
                         <<" ">> \o Join(gs \o <<a.key>>, <<".">>) \o <<"=">> \o a.value.s
                                 \o <<"\n">>)

\* a handler that entered g twice and bound nothing wrote the record's s=ok as
\* g.g.s=ok, right after the message column
C17_Witness ==
    \E i \in 1..Len(sink) :
        /\ GroupsEntered(sink[i].by) = <<str_g, str_g>>
        /\ ChainAttrs(sink[i].by) = <<>>
        /\ sink[i].data.bytes
             = <<"[", "]", " ", "I", "N", "F", "O", " ", " ", "h", "i", " ",
                 "g", ".", "g", ".", "s", "=", "o", "k", "\n">>

-----------------------------------------------------------------------------
(* Properties of SpecDerive: when the prefix of a bound attribute is fixed *)

\* history: the bound attributes of handler id as key=value texts, each key
\* prefixed with the groups that had been entered when it was bound
RECURSIVE BoundAtBindTime(_)
BoundAtBindTime(id) ==
    IF id = 0 THEN <<>>
    ELSE BoundAtBindTime(hist[id].parent)
         \o (IF hist[id].op = "WithAttrs"
             THEN [j \in 1..Len(hist[id].attrs) |->
                     Join(GroupsEntered(id) \o <<hist[id].attrs[j].key>>, <<".">>)
                        \o <<"=">> \o hist[id].attrs[j].value.s]
             ELSE <<>>)

\* C18: a bound attribute is written with the groups that were entered when
\* WithAttrs bound it, by the handler that bound it and by every handler
\* derived from it, whatever groups are entered later.
C18_PrefixFixedAtBindTime ==
    \A i \in 1..Len(sink) :
        LET e == sink[i]
            gs == GroupsEntered(e.by)
            want == BoundAtBindTime(e.by)
            toks == Split(Tail(AttrSection(e)), " ")
        IN (e.data.fmt = "text" /\ (gs = <<>> \/ NonEmptyNames(gs)))
             => /\ Len(toks) >= Len(want)
                /\ \A j \in 1..Len(want) : toks[j] = want[j]

-----------------------------------------------------------------------------
(* SpecShare: several derivations from one parent.  WithAttrs with three      *)
(* different lists and WithGroup with two names, so that two children of one *)
(* handler can be told apart.                                                *)

ShareBindLists ==
    {OneAttr, TwoAttrs, <<Attr(str_c, StringValue(str_v))>>}

ShareLog ==
    /\ Len(handlers) + Len(sink) < ShareMaxOps
    /\ \E id \in 1..Len(handlers), r \in DeriveRecords : Handle(id, r, NoError)

ShareBind ==
    /\ Len(handlers) + Len(sink) < ShareMaxOps
    /\ \E id \in 1..Len(handlers), as \in ShareBindLists : WithAttrs(id, as)

ShareEnter ==
    /\ Len(handlers) + Len(sink) < ShareMaxOps
    /\ \E id \in 1..Len(handlers), name \in {str_g, str_a} : WithGroup(id, name)

NextShare == DeriveConstruct \/ ShareLog \/ ShareBind \/ ShareEnter

SpecShare == Init /\ [][NextShare]_vars

\* C19: every handler's bound attributes are its parent's at derivation time
\* followed by the ones it was given, and its groups its parent's followed by
\* the name it was given, whatever was derived afterwards.
C19_HandlerOwnsItsSequences ==
    \A id \in 1..Len(handlers) :
        ~handlers[id].opts.UseJSON
            => /\ elemsOf(attrArr, handlers[id].attrs) = ChainAttrs(id)
               /\ elemsOf(grpArr, handlers[id].groups) = GroupsEntered(id)

-----------------------------------------------------------------------------
(* SpecFlat: group-valued attributes, bound and on the record, plain and     *)
(* nested, with and without a group entered on the handler.                  *)

str_p == <<"p">>
str_d == <<"d">>

PlainGroup ==
    Attr(str_p, GroupValue(<<Attr(str_c, StringValue(str_v)), Attr(str_d, Int64Value(7))>>))

NestedGroup ==
    Attr(str_p, GroupValue(<<Attr(str_c, StringValue(str_v)),
                             Attr(str_d, GroupValue(<<Attr(str_k, BoolValue(TRUE))>>))>>))

FlatRecords ==
    {Record(LevelInfo, str_hi, as, 0) :
        as \in {<<>>, <<PlainGroup>>, <<NestedGroup>>,
                <<Attr(str_s, StringValue(str_ok)), PlainGroup>>}}

FlatLog ==
    /\ Len(handlers) + Len(sink) < OrderMaxOps
    /\ \E id \in 1..Len(handlers), r \in FlatRecords : Handle(id, r, NoError)

FlatBind ==
    /\ Len(handlers) + Len(sink) < OrderMaxOps
    /\ \E id \in 1..Len(handlers), as \in {OneAttr, <<PlainGroup>>} : WithAttrs(id, as)

NextFlat == DeriveConstruct \/ FlatLog \/ FlatBind \/ OrderEnter

SpecFlat == Init /\ [][NextFlat]_vars

\* the attributes as with every group-valued one replaced by its members,
\* their keys prefixed with the group's key, recursively
RECURSIVE Flatten(_)
Flatten(as) ==
    IF as = <<>> THEN <<>>
    ELSE LET a == as[1]
         IN (IF a.value.kind = "Group"
             THEN LET inner == Flatten(a.value.attrs)
                  IN [j \in 1..Len(inner) |->
                        Attr(a.key \o <<".">> \o inner[j].key, inner[j].value)]
             ELSE <<a>>)
            \o Flatten(Tail(as))

\* C20: a text line with group-valued attributes is the line the handler
\* writes when each of them is replaced by its members as flat attributes
\* p.c1 .. p.cn.
C20_GroupValueFlattened ==
    \A i \in 1..Len(sink) :
        LET e == sink[i]
            h == handlers[e.by]
        IN e.data.fmt = "text"
             => e.data.bytes
                  = textLine(h.opts, Flatten(elemsOf(attrArr, h.attrs)),
                             elemsOf(grpArr, h.groups),
                             [e.rec EXCEPT !.attrs = Flatten(e.rec.attrs)])

-----------------------------------------------------------------------------
(* SpecConc: goroutines calling Handle concurrently on a text-mode handler   *)
(* and on handlers derived from it, Handle taken step by step, while others  *)
(* call Enabled, WithAttrs and WithGroup.                                    *)

Callers == 1..MaxCallers

ConcRecords == {Record(LevelInfo, str_hi, <<>>, 0), Record(LevelDebug, str_hi, <<>>, 0)}

\* the Handle calls in progress
InFlight == Cardinality({t \in Callers : callers[t].pc # "idle"})

ConcBegin ==
    /\ Len(handlers) + Len(sink) + InFlight < ConcMaxOps
    /\ \E t \in Callers, id \in 1..Len(handlers), r \in ConcRecords : HandleBegin(t, id, r)

ConcLock == \E t \in Callers : HandleLock(t)

ConcWrite == \E t \in Callers : HandleWrite(t)

ConcReturn == \E t \in Callers, wres \in {NoError, ErrSink} : HandleReturn(t, wres)

ConcProbe == \E id \in 1..Len(handlers) : Enabled(id, LevelInfo)

ConcBind ==
    /\ Len(handlers) + Len(sink) + InFlight < ConcMaxOps
    /\ \E id \in 1..Len(handlers) : WithAttrs(id, OneAttr)

ConcEnter ==
    /\ Len(handlers) + Len(sink) + InFlight < ConcMaxOps
    /\ \E id \in 1..Len(handlers) : WithGroup(id, str_g)

NextConc ==
    \/ DeriveConstruct \/ ConcBegin \/ ConcLock \/ ConcWrite \/ ConcReturn
    \/ ConcProbe \/ ConcBind \/ ConcEnter

SpecConc == Init /\ [][NextConc]_vars

-----------------------------------------------------------------------------
(* SpecKinds: formatAttr applied once to an attribute of each value kind:    *)
(* errors, integers, booleans, durations, times and other generic values.    *)

KindValues ==
    {AnyError(s) : s \in QuoteInputs}
    \cup {AnyOther(s) : s \in QuoteVectors}
    \cup {AnyNil}
    \cup {Int64Value(n) : n \in Levels}
    \cup {BoolValue(b) : b \in BOOLEAN}
    \cup {DurationValue(d) : d \in {0, 1500, 2000}}
    \cup {TimeValue(TheInstant)}

FormatKindCall ==
    \E v \in KindValues, c \in BOOLEAN :
        /\ call.op = "none"
        /\ call' = [op |-> "formatAttr", attr |-> Attr(str_k, v)]
        /\ ret' = [text |-> formatAttr(Attr(str_k, v), c)]
        /\ UNCHANGED <<handlers, attrArr, grpArr, jh, sink, hist, callers, callerOpts>>

SpecKinds == Init /\ [][FormatKindCall]_vars

\* the value part of what formatAttr returned: what follows key=
RenderedValue == Slice(ret.text, Len(call.attr.key) + 2, Len(ret.text))

-----------------------------------------------------------------------------
(* Claims about the lock, checked under SpecConc *)

\* goroutine t is inside the render-and-write section of handler id
InSection(t, id) == callers[t].pc \in {"locked", "writing"} /\ callers[t].h = id

\* goroutine t has called the sink's write and the call has not come back
WriteInProgress(t) == callers[t].pc = "writing"

\* this step is the return of goroutine t's Handle from the write
Returns(t) == callers[t].pc = "writing" /\ callers'[t].pc = "idle"

\* C22: a Handle on an enabled record makes one write call on the sink, with
\* the whole line, newline included, and makes it while it holds the
\* handler's lock; it takes the lock once, from unlocked, and when it returns
\* the lock is free again, whether the write succeeded or failed.
C22_OneWriteUnderTheLock ==
    /\ [](\A t \in Callers :
            WriteInProgress(t) => handlers[callers[t].h].mu = "locked")
    /\ [][\A t \in Callers :
            /\ Returns(t)
                  => /\ Len(sink') = Len(sink) + 1
                     /\ sink'[Len(sink')].by = callers[t].h
                     /\ sink'[Len(sink')].data = callers[t].line
                     /\ EndsWith(sink'[Len(sink')].data.bytes, <<"\n">>)
                     /\ ret'.err = sink'[Len(sink')].res
                     /\ handlers'[callers[t].h].mu = "unlocked"
            /\ (callers[t].pc = "lock" /\ callers'[t].pc # "lock")
                  => /\ handlers[callers[t].h].mu = "unlocked"
                     /\ handlers'[callers[t].h].mu = "locked"
                     /\ callers'[t].pc = "locked"
            /\ (callers[t].pc = "locked" /\ callers'[t].pc # "locked")
                  => /\ WriteInProgress(t)'
                     /\ callers'[t].line = output(callers[t].h, callers[t].r)
            /\ (sink' # sink) => \E u \in Callers : Returns(u)]_vars

\* a Handle whose write failed has returned the error and left the lock free
C22_Witness ==
    /\ call.op = "Handle"
    /\ \A t \in Callers : callers[t].pc = "idle"
    /\ Len(sink) = 1
    /\ sink[1].res = ErrSink
    /\ ret = [err |-> ErrSink]
    /\ handlers[sink[1].by].mu = "unlocked"

\* C23: of the goroutines using one handler at most one is inside its
\* render-and-write section, so a write by that handler is never in progress
\* together with another one by it; and Enabled on the handler can be called
\* and answers at every moment, whatever Handle calls are in progress.
C23_OneCallerInSection ==
    \A id \in 1..Len(handlers) :
        /\ Cardinality({t \in Callers : InSection(t, id)}) <= 1
        /\ ENABLED Enabled(id, LevelInfo)

\* one goroutine is writing through the root while the other waits for the
\* root's lock, and Enabled has just answered
C23_Witness ==
    /\ \E t, u \in Callers :
          /\ InSection(t, 1) /\ WriteInProgress(t)
          /\ callers[u].pc = "lock" /\ callers[u].h = 1
    /\ call.op = "Enabled"

\* C24: a derived handler's lock is its own: a goroutine that waits for a
\* handler's lock while no goroutine is inside that handler's section can
\* take it, whatever goes on in the section of the handler's parent.
C24_ChildLockIndependent ==
    \A t \in Callers :
        (callers[t].pc = "lock" /\ \A u \in Callers : ~InSection(u, callers[t].h))
            => handlers[callers[t].h].mu = "unlocked"

\* SpecConcFair: SpecConc under a fair scheduler and with a sink whose write
\* calls return.  A goroutine that can go on does go on; sync.Mutex hands the
\* lock to a goroutine that keeps waiting for it (starvation mode).
SpecConcFair ==
    /\ Init
    /\ [][NextConc]_vars
    /\ \A t \in Callers :
          /\ SF_vars(HandleLock(t))
          /\ WF_vars(HandleWrite(t))
          /\ WF_vars(\E wres \in {NoError, ErrSink} : HandleReturn(t, wres))

\* C25: every Handle call that has begun returns.
C25_EveryHandleReturns ==
    \A t \in Callers : (callers[t].pc # "idle") ~> (callers[t].pc = "idle")

-----------------------------------------------------------------------------
(* SpecLine: a text-mode handler writes records whose message, attribute     *)
(* keys and attribute values hold newlines and other control characters.     *)

str_a_nl_b == <<"a", "\n", "b">>

LineMessages == {str_hi, str_a_nl_b, <<"\n">>, <<"a", "\t">>}

LineAttrs ==
    {<<>>,
     <<Attr(str_k, StringValue(str_a_nl_b))>>,
     <<Attr(str_k, AnyError(str_a_nl_b))>>,
     <<Attr(str_k, AnyOther(str_a_nl_b))>>,
     <<Attr(<<"k", "\n">>, StringValue(str_v))>>,
     <<Attr(str_k, StringValue(<<"a", "\t">>))>>}

LineRecords == {Record(LevelInfo, m, as, 0) : m \in LineMessages, as \in LineAttrs}

LineConstruct ==
    \E c \in BOOLEAN :
        NewHandler(TheWriter, <<Options(LevelInfo, NilWriter, LayoutUnset, c, FALSE, 3, FALSE)>>)

LineLog ==
    /\ Len(handlers) + Len(sink) < MaxOps
    /\ \E r \in LineRecords : Handle(1, r, NoError)

NextLine == LineConstruct \/ LineLog

SpecLine == Init /\ [][NextLine]_vars

\* C26: what one Handle call writes in text mode holds exactly one newline,
\* and that newline is its last byte.
C26_ExactlyOneNewlineLast ==
    \A i \in 1..Len(sink) :
        /\ Occurrences(sink[i].data.bytes, "\n") = 1
        /\ EndsWith(sink[i].data.bytes, <<"\n">>)

-----------------------------------------------------------------------------
(* Claims about what derivation and Handle leave alone, checked under Spec *)

\* the mode a handler writes in
OutputMode(id) == IF handlers[id].opts.UseJSON THEN "json" ELSE "text"

\* C27: every handler derived from the root, at any depth, has the root's
\* options and the root's sink, and its underlying slog handler has the
\* root's writer, level, source flag and encoding; every write goes to the
\* root's sink in the root's mode.
C27_DerivedKeepsSinkAndOptions ==
    /\ \A id \in 1..Len(handlers) :
          /\ handlers[id].opts = handlers[1].opts
          /\ jh[handlers[id].h].w = jh[handlers[1].h].w
          /\ jh[handlers[id].h].level = jh[handlers[1].h].level
          /\ jh[handlers[id].h].addSource = jh[handlers[1].h].addSource
          /\ jh[handlers[id].h].json = jh[handlers[1].h].json
          /\ OutputMode(id) = OutputMode(1)
    /\ \A i \in 1..Len(sink) :
          /\ sink[i].to = handlers[1].opts.Writer
          /\ sink[i].data.fmt = OutputMode(1)

\* a JSON handler derived by WithGroup has written to the root's sink
C27_Witness ==
    /\ Len(handlers) = 2
    /\ hist[2].op = "WithGroup"
    /\ handlers[2].opts.UseJSON
    /\ handlers[2].opts.Level = 2
    /\ Len(sink) = 1
    /\ sink[1].by = 2
    /\ sink[1].to = TheWriter
    /\ sink[1].data.fmt = "json"

-----------------------------------------------------------------------------
(* SpecRetain: handlers of both modes, bare or with a bound attribute,       *)
(* handle records with and without attributes, enabled and disabled, on a    *)
(* sink that takes the write or fails it.                                    *)

RetainRecords ==
    {Record(l, str_hi, as, 0) :
        l \in {LevelDebug, LevelInfo}, as \in {<<>>, <<Attr(str_s, StringValue(str_ok))>>}}

RetainConstruct ==
    \E j \in BOOLEAN :
        NewHandler(TheWriter, <<Options(LevelInfo, NilWriter, LayoutUnset, TRUE, FALSE, 2, j)>>)

RetainBind ==
    /\ Len(handlers) + Len(sink) < OrderMaxOps
    /\ \E id \in 1..Len(handlers) : WithAttrs(id, OneAttr)

RetainLog ==
    /\ Len(handlers) + Len(sink) < OrderMaxOps
    /\ \E id \in 1..Len(handlers), r \in RetainRecords, wres \in {NoError, ErrSink} :
          Handle(id, r, wres)

NextRetain == RetainConstruct \/ RetainBind \/ RetainLog

SpecRetain == Init /\ [][NextRetain]_vars

\* C28: a Handle call, of an enabled or a disabled record, with a write that
\* succeeds or fails, changes no handler: options, bound attributes, groups
\* and underlying handler are as before; and two Handle calls of one handler
\* with the same record, no handler derived in between, write the same bytes.
C28_HandleLeavesHandlerUnchanged ==
    /\ [][call'.op = "Handle"
            => /\ handlers' = handlers
               /\ attrArr' = attrArr
               /\ grpArr' = grpArr
               /\ jh' = jh]_vars
    /\ [](\A i, j \in 1..Len(sink) :
            (sink[i].by = sink[j].by /\ sink[i].rec = sink[j].rec /\ sink[i].nh = sink[j].nh)
                => sink[i].data = sink[j].data)

\* a handler with a bound attribute wrote the same record twice, the first
\* write failing, and the same bytes both times
C28_Witness ==
    /\ Len(sink) = 2
    /\ sink[1].by = 2 /\ sink[2].by = 2
    /\ ~handlers[2].opts.UseJSON
    /\ sink[1].rec = sink[2].rec
    /\ sink[1].rec.attrs # <<>>
    /\ sink[1].res = ErrSink
    /\ sink[1].data = sink[2].data
    /\ call.op = "Handle"

-----------------------------------------------------------------------------
(* SpecOpts: the caller owns an Options value, passes a pointer to it to     *)
(* NewHandler together with the sink, and goes on changing the value while   *)
(* the handler is probed and used.                                           *)

CallerOptions ==
    {Options(l, wr, LayoutUnset, c, FALSE, 2, j) :
        l \in MinLevels, wr \in {OtherWriter, NilWriter}, c \in BOOLEAN, j \in BOOLEAN}

\* the caller assigns to the fields of its Options value
CallerSets ==
    \E o \in CallerOptions :
        /\ callerOpts # <<o>>
        /\ callerOpts' = <<o>>
        /\ call' = [op |-> "SetOptions", opts |-> o]
        /\ ret' = [op |-> "none"]
        /\ UNCHANGED <<handlers, attrArr, grpArr, jh, sink, hist, callers>>

OptsConstruct == NewHandler(TheWriter, callerOpts)

OptsProbe == \E l \in ProbeLevels : Enabled(1, l)

OptsLog ==
    /\ Len(handlers) + Len(sink) < MaxOps
    /\ \E r \in GateRecords : Handle(1, r, NoError)

NextOpts == CallerSets \/ OptsConstruct \/ OptsProbe \/ OptsLog

SpecOpts == Init /\ [][NextOpts]_vars

\* the options NewHandler was called with (the defaults when it was given nil)
GivenOptions == hist[1].opts

\* C29: NewHandler does not change the caller's Options value; the handler
\* writes to the sink given as first argument whatever Writer the options
\* named; and the caller's later changes to its Options value change nothing
\* of the handler: its options stay those given at construction, with the
\* sink as Writer, Enabled answers by the level given then, and every line is
\* written in the mode, width, color and time format given then.
C29_OptionsCopiedAtConstruction ==
    /\ [][call'.op = "NewHandler" => callerOpts' = callerOpts]_vars
    /\ [][callerOpts' # callerOpts => (handlers' = handlers /\ jh' = jh)]_vars
    /\ [](handlers # <<>>
            => /\ handlers[1].opts = [GivenOptions EXCEPT !.Writer = TheWriter]
               /\ jh[handlers[1].h].w = TheWriter
               /\ jh[handlers[1].h].level = GivenOptions.Level
               /\ call.op = "Enabled" => (ret.ok <=> call.level >= GivenOptions.Level)
               /\ \A i \in 1..Len(sink) :
                     /\ sink[i].to = TheWriter
                     /\ sink[i].rec.level >= GivenOptions.Level
                     /\ sink[i].data.fmt = (IF GivenOptions.UseJSON THEN "json" ELSE "text")
                     /\ ~GivenOptions.UseJSON
                           => sink[i].data.bytes
                                = textLine(GivenOptions, <<>>, <<>>, sink[i].rec))

\* a handler built with options naming another Writer and minimum level Info
\* wrote an Info record to the sink it was given, after the caller had changed
\* its Options value to JSON with minimum level 2
C29_Witness ==
    /\ handlers # <<>>
    /\ GivenOptions.Writer = OtherWriter
    /\ GivenOptions.Level = LevelInfo
    /\ ~GivenOptions.UseJSON
    /\ callerOpts # <<GivenOptions>>
    /\ callerOpts[1].UseJSON
    /\ callerOpts[1].Level = 2
    /\ call.op = "Handle"
    /\ Len(sink) = 1
    /\ sink[1].rec.level = LevelInfo
    /\ sink[1].to = TheWriter
    /\ sink[1].data.fmt = "text"

\* C30 (checked under SpecConc): of the writes to one sink by a handler and
\* the handlers derived from it, at most one is in progress at any time.
C30_OneWriteInProgressPerSink ==
    \A t, u \in Callers :
        (t # u /\ WriteInProgress(t) /\ WriteInProgress(u))
            => handlers[callers[t].h].opts.Writer # handlers[callers[u].h].opts.Writer

====
